---- MODULE Spec2Model ----
(***************************************************************************)
(* Feature detection and extension dispatch of the ERC-1155 facade         *)
(* (class Erc1155, src/unnamed/part_001), and the helper fields of         *)
(* SignatureDrop (signature-drop.ts).                                      *)
(*                                                                         *)
(* The facade is built on a contract wrapper whose ABI is the interface    *)
(* descriptor.  The constructor assigns the five capability fields one by  *)
(* one from the detect* methods; every optional operation goes through     *)
(* assertEnabled, which hands back the stored handle or raises             *)
(* ExtensionNotImplementedError.  A network round trip (resolving the      *)
(* signer address) suspends the call; its outcome is the environment's.    *)
(***************************************************************************)
EXTENDS Integers, FiniteSets, Sequences, TLC

VARIABLES
    contractWrapper,  \* the ContractWrapper the facade was built on
    pc,               \* position of the Erc1155 constructor (0 .. 5)
    erc1155,          \* the five private capability fields of the facade
    nextObj,          \* allocation counter: identity of the next object
    call,             \* the facade call in flight or last completed
    facade2,          \* a second Erc1155 built on the same wrapper
    dropWrapper,      \* the ContractWrapper of a SignatureDrop
    signatureDrop,    \* the helper fields of that SignatureDrop
    editions,         \* the printed editions of an NFT, as the chain holds them
    supplyOf,         \* the activation of NFTCollection.supplyOf
    chain,            \* the drop contract's counters totalMinted, nextTokenIdToMint
    dropRead,         \* the activation of a SignatureDrop read
    governor,         \* the vote contract's proposals, in getAllProposals order
    voteCall,         \* the activation of a Vote operation
    token,            \* what the ERC1155 contract answers for one token id
    stdCall,          \* the activation of a standard Erc1155 function
    provider,         \* the process-wide anchor provider (setProvider)
    programs,         \* the Program instances constructed so far
    walletSigner,     \* the signer wallet.getSigner() returns
    programCall,      \* the last call made through a Program
    voteWrapper,      \* the ContractWrapper of a Vote
    voteContract      \* the helper fields of that Vote

dropVars == <<dropWrapper, signatureDrop>>

coreVars == <<contractWrapper, pc, erc1155, nextObj, call, facade2, dropVars>>

supplyVars == <<editions, supplyOf>>

dropReadVars == <<chain, dropRead>>

voteVars == <<governor, voteCall>>

stdVars == <<token, stdCall>>

programVars == <<provider, programs, walletSigner, programCall>>

voteFacadeVars == <<voteWrapper, voteContract>>

laterVars == <<stdVars, programVars, voteFacadeVars>>

auxVars == <<supplyVars, dropReadVars, voteVars, laterVars>>

vars == <<coreVars, auxVars>>

(***************************************************************************)
(* Bounds                                                                  *)
(***************************************************************************)
MaxNetworkUpdates == 1

\* edition-marker pages an NFT's printed editions may fill
MaxMarkers == 2

\* token ids the drop contract may have lazily minted
MaxTokens == 3

\* largest start and count of a query
MaxQuery == 4

\* proposal ids the vote contract may hold
MaxProposalId == 3

\* recipients of one airdrop
MaxRecipients == 2

\* largest quantity airdropped to one recipient
MaxQuantity == 2

\* largest balance the caller holds of the token
MaxBalance == 4

\* Program instances constructed in the process
MaxPrograms == 3

(***************************************************************************)
(* Capability registry: capability name -> required selectors.             *)
(***************************************************************************)
RequiredSelectors(featureName) ==
    CASE featureName = "ERC1155Enumerable" -> {"nextTokenIdToMint"}
      [] featureName = "ERC1155Mintable" -> {"mintTo"}
      [] featureName = "ERC1155BatchMintable" -> {"multicall"}
      [] featureName = "ERC1155Burnable" -> {"burn", "burnBatch"}
      [] featureName = "ERC1155LazyMintable" -> {"lazyMint"}
      [] featureName = "ERC1155Claimable" -> {"claim"}
      [] featureName = "ERC1155ClaimableWithConditions" -> {"setClaimConditions"}
      [] featureName = "ERC1155SignatureMintable" -> {"mintWithSignature", "verify"}
      [] featureName = "ERC1155Revealable" -> {"reveal"}

\* the designated minimal subset of a requirement (PARTIAL support)
MinimalSelectors(featureName) ==
    CASE featureName = "ERC1155Burnable" -> {"burn"}
      [] featureName = "ERC1155SignatureMintable" -> {"mintWithSignature"}
      [] OTHER -> RequiredSelectors(featureName)

FeatureNames ==
    {"ERC1155Enumerable", "ERC1155Mintable", "ERC1155BatchMintable",
     "ERC1155Burnable", "ERC1155LazyMintable", "ERC1155Claimable",
     "ERC1155ClaimableWithConditions", "ERC1155SignatureMintable",
     "ERC1155Revealable"}

Selectors == UNION {RequiredSelectors(f) : f \in FeatureNames}

\* Capability Probe: supports(descriptor, requirement) -> SupportLevel
supports(descriptor, featureName) ==
    IF RequiredSelectors(featureName) \subseteq descriptor THEN "FULL"
    ELSE IF MinimalSelectors(featureName) \subseteq descriptor THEN "PARTIAL"
    ELSE "NONE"

detectContractFeature(cw, featureName) == supports(cw.abi, featureName) = "FULL"

(***************************************************************************)
(* Feature constants imported from constants/erc1155-features.             *)
(***************************************************************************)
Feature(capability) ==
    [name |-> "ERC1155" \o capability, capability |-> capability, family |-> "ERC1155"]

FEATURE_EDITION_ENUMERABLE == Feature("Enumerable")
FEATURE_EDITION_MINTABLE == Feature("Mintable")
FEATURE_EDITION_BATCH_MINTABLE == Feature("BatchMintable")
FEATURE_EDITION_BURNABLE == Feature("Burnable")
FEATURE_EDITION_LAZY_MINTABLE == Feature("LazyMintable")
FEATURE_EDITION_CLAIMABLE == Feature("Claimable")
FEATURE_EDITION_CLAIMABLE_WITH_CONDITIONS == Feature("ClaimableWithConditions")
FEATURE_EDITION_SIGNATURE_MINTABLE == Feature("SignatureMintable")
FEATURE_EDITION_REVEALABLE == Feature("Revealable")

(***************************************************************************)
(* Values of a capability field.                                           *)
(***************************************************************************)
Unset == [tag |-> "unset"]          \* the constructor has not assigned it yet
Undefined == [tag |-> "undefined"]  \* assigned: the capability is absent

IsHandle(v) == v.tag = "handle"

\* an object of a capability class, bound to the wrapper it was given
Handle(class, obj, cw) ==
    [tag |-> "handle", class |-> class, id |-> obj, cw |-> cw.id,
     builtGen |-> cw.network]

FieldNames == {"query", "mintable", "burnable", "lazyMintable", "signatureMintable"}

UnboundFacade == [f \in FieldNames |-> Unset]

\* x?.member
OptionalChain(x, member) == IF IsHandle(x) THEN x[member] ELSE Undefined

(***************************************************************************)
(* Constructors of the capability classes.  `self` is the facade passed as *)
(* `this`; the classes keep the reference and read nothing from it.  The   *)
(* identity of an object is the pair <<n, role>>: n numbers the `new` of   *)
(* the facade's detect method, role names the object created within it.    *)
(***************************************************************************)
NoObject == <<0, "none">>
WrapperId == <<0, "contractWrapper">>
DropWrapperId == <<0, "dropWrapper">>
VoteWrapperId == <<0, "voteWrapper">>

NewErc1155Enumerable(self, cw, obj) == Handle("Erc1155Enumerable", <<obj, "self">>, cw)

NewErc1155Mintable(self, cw, obj) ==
    Handle("Erc1155Mintable", <<obj, "self">>, cw) @@
    [batch |-> IF detectContractFeature(cw, "ERC1155BatchMintable")
               THEN Handle("Erc1155BatchMintable", <<obj, "batch">>, cw)
               ELSE Undefined]

NewErc1155Burnable(cw, obj) == Handle("Erc1155Burnable", <<obj, "self">>, cw)

NewErc1155LazyMintable(self, cw, obj) ==
    Handle("Erc1155LazyMintable", <<obj, "self">>, cw) @@
    [claim |-> IF detectContractFeature(cw, "ERC1155Claimable")
               THEN Handle("Erc1155Claimable", <<obj, "claim">>, cw)
               ELSE Undefined,
     claimWithConditions |->
               IF detectContractFeature(cw, "ERC1155ClaimableWithConditions")
               THEN Handle("Erc1155ClaimableWithConditions", <<obj, "claimWithConditions">>, cw) @@
                    [conditions |-> Handle("DropErc1155ClaimConditions", <<obj, "conditions">>, cw)]
               ELSE Undefined,
     revealer |-> IF detectContractFeature(cw, "ERC1155Revealable")
               THEN Handle("DelayedReveal", <<obj, "revealer">>, cw)
               ELSE Undefined]

NewErc1155SignatureMintable(cw, obj) == Handle("Erc1155SignatureMintable", <<obj, "self">>, cw)

(***************************************************************************)
(* The detect* methods of Erc1155.                                         *)
(***************************************************************************)
detectErc1155Enumerable(self, cw, obj) ==
    IF detectContractFeature(cw, "ERC1155Enumerable")
    THEN NewErc1155Enumerable(self, cw, obj)
    ELSE Undefined

\* a detection that raises instead of reporting the capability absent
detectErc1155MintableThrows(self, cw, obj) ==
    IF detectContractFeature(cw, "ERC1155Mintable")
    THEN NewErc1155Mintable(self, cw, obj)
    ELSE [tag |-> "throw",
          error |-> [type |-> "ExtensionNotImplemented", feature |-> FEATURE_EDITION_MINTABLE]]

detectErc1155Mintable(self, cw, obj) ==
    IF detectContractFeature(cw, "ERC1155Mintable")
    THEN NewErc1155Mintable(self, cw, obj)
    ELSE Undefined

\* a detection that consults a field of `this` assigned later in the constructor
detectErc1155BurnableOrderDependent(self, cw, obj) ==
    IF detectContractFeature(cw, "ERC1155Burnable") /\ self.lazyMintable = Unset
    THEN NewErc1155Burnable(cw, obj)
    ELSE Undefined

detectErc1155Burnable(self, cw, obj) ==
    IF detectContractFeature(cw, "ERC1155Burnable")
    THEN NewErc1155Burnable(cw, obj)
    ELSE Undefined

detectErc1155LazyMintable(self, cw, obj) ==
    IF detectContractFeature(cw, "ERC1155LazyMintable")
    THEN NewErc1155LazyMintable(self, cw, obj)
    ELSE Undefined

\* a detection that is content with the minimal subset of the selectors
detectErc1155SignatureMintableOnPartial(self, cw, obj) ==
    IF supports(cw.abi, "ERC1155SignatureMintable") # "NONE"
    THEN NewErc1155SignatureMintable(cw, obj)
    ELSE Undefined

detectErc1155SignatureMintable(self, cw, obj) ==
    IF detectContractFeature(cw, "ERC1155SignatureMintable")
    THEN NewErc1155SignatureMintable(cw, obj)
    ELSE Undefined

(***************************************************************************)
(* The constructor body, lines 84-88: statement `step` assigns one field.  *)
(***************************************************************************)
ConstructorOrder == <<"query", "mintable", "burnable", "lazyMintable", "signatureMintable">>

Detect(field, self, cw, obj) ==
    CASE field = "query" -> detectErc1155Enumerable(self, cw, obj)
      [] field = "mintable" -> detectErc1155Mintable(self, cw, obj)
      [] field = "burnable" -> detectErc1155Burnable(self, cw, obj)
      [] field = "lazyMintable" -> detectErc1155LazyMintable(self, cw, obj)
      [] field = "signatureMintable" -> detectErc1155SignatureMintable(self, cw, obj)

Assign(self, field, cw, obj) == [self EXCEPT ![field] = Detect(field, self, cw, obj)]

RECURSIVE RunConstructor(_, _, _, _)
RunConstructor(self, order, cw, obj) ==
    IF order = <<>> THEN self
    ELSE RunConstructor(Assign(self, Head(order), cw, obj), Tail(order), cw,
                        obj + 1)

(***************************************************************************)
(* Errors and the guarded accessor.                                        *)
(***************************************************************************)
NoFeature == [name |-> "none", capability |-> "none", family |-> "none"]

ExtensionNotImplementedError(feature) ==
    [type |-> "ExtensionNotImplemented", feature |-> feature]

\* assertEnabled(namespace, feature): the handle itself, or the error
assertEnabled(namespace, feature) ==
    IF IsHandle(namespace)
    THEN [ok |-> TRUE, value |-> namespace]
    ELSE [ok |-> FALSE, error |-> ExtensionNotImplementedError(feature)]

\* the network context a handle operates on: the one of the wrapper it
\* references, which updateSignerOrProvider changes in place
HandleContext(h) ==
    IF h.cw = contractWrapper.id THEN contractWrapper.network
    ELSE IF h.cw = dropWrapper.id THEN dropWrapper.network
    ELSE IF h.cw = voteWrapper.id THEN voteWrapper.network
    ELSE h.builtGen

Assigned(self) == {f \in FieldNames : self[f] # Unset}

(***************************************************************************)
(* The record of a facade call: what the caller gets to see.               *)
(*   outcome     "ExtensionNotImplemented" | "SignerError" | "dispatched"  *)
(*               (a method of the handle was invoked) | "returned" (a      *)
(*               getter handed the handle back)                            *)
(*   roundTrips  network round trips issued by the facade before outcome   *)
(***************************************************************************)
NoCall ==
    [op |-> "none", stage |-> "done", outcome |-> "none", feature |-> NoFeature,
     handle |-> NoObject, method |-> "none", roundTrips |-> 0, builtGen |-> 0,
     ctxGen |-> 0, atGen |-> 0, sawAssigned |-> {}]

Raised(op, error, trips) ==
    [NoCall EXCEPT !.op = op, !.outcome = error.type, !.feature = error.feature,
                   !.roundTrips = trips, !.atGen = contractWrapper.network,
                   !.sawAssigned = Assigned(erc1155)]

Completed(op, outcome, h, method, trips) ==
    [NoCall EXCEPT !.op = op, !.outcome = outcome, !.handle = h.id,
                   !.method = method, !.roundTrips = trips,
                   !.builtGen = h.builtGen, !.ctxGen = HandleContext(h),
                   !.atGen = contractWrapper.network,
                   !.sawAssigned = Assigned(erc1155)]

\* assertEnabled(namespace, feature).method(...)
Guarded(op, namespace, feature, method, trips) ==
    LET r == assertEnabled(namespace, feature)
    IN  IF r.ok THEN Completed(op, "dispatched", r.value, method, trips)
        ELSE Raised(op, r.error, trips)

\* get x() { return assertEnabled(namespace, feature) }
Getter(op, namespace, feature) ==
    LET r == assertEnabled(namespace, feature)
    IN  IF r.ok THEN Completed(op, "returned", r.value, "none", 0)
        ELSE Raised(op, r.error, 0)

\* await this.contractWrapper.getSignerAddress(): the call is suspended
Awaiting(op, trips) ==
    [NoCall EXCEPT !.op = op, !.stage = "awaitSigner", !.roundTrips = trips,
                   !.atGen = contractWrapper.network,
                   !.sawAssigned = Assigned(erc1155)]

\* getSignerAddress() rejected: the wrapper has no signer
SignerError(op, trips) ==
    [NoCall EXCEPT !.op = op, !.outcome = "SignerError", !.roundTrips = trips,
                   !.atGen = contractWrapper.network,
                   !.sawAssigned = Assigned(erc1155)]

\* the reference to the facade exists once `new Erc1155(...)` has returned,
\* and the caller awaits one call before the next
\* the facade reference escaping while the constructor is still running
CanCallDuringConstruction == pc >= 1 /\ call.stage = "done"

CanCall == pc = Len(ConstructorOrder) /\ call.stage = "done"

Invoke(c) ==
    /\ CanCall
    /\ call' = c
    /\ UNCHANGED <<contractWrapper, pc, erc1155, nextObj, facade2, dropVars, auxVars>>

Resume(op, c) ==
    /\ call.stage = "awaitSigner"
    /\ call.op = op
    /\ \E signerOk \in BOOLEAN :
          call' = IF signerOk THEN c ELSE SignerError(op, call.roundTrips)
    /\ UNCHANGED <<contractWrapper, pc, erc1155, nextObj, facade2, dropVars, auxVars>>

(***************************************************************************)
(* SignatureDrop (signature-drop.ts): the constructor builds every helper  *)
(* on this.contractWrapper, in this order; `signature` is assigned twice.  *)
(***************************************************************************)
DropConstructorOrder ==
    <<"metadata", "roles", "royalties", "sales", "encoder", "estimator", "events",
      "platformFees", "interceptor", "erc721", "claimConditions", "signature",
      "revealer", "signature", "owner", "checkout">>

DropHelperNames == {DropConstructorOrder[i] : i \in DOMAIN DropConstructorOrder}

RECURSIVE RunDropConstructor(_, _, _)
RunDropConstructor(self, step, cw) ==
    IF step > Len(DropConstructorOrder) THEN self
    ELSE RunDropConstructor(
            [self EXCEPT ![DropConstructorOrder[step]] =
                Handle(DropConstructorOrder[step], <<step, DropConstructorOrder[step]>>, cw)],
            step + 1, cw)

SignatureDropConstructor(cw) ==
    RunDropConstructor([f \in DropHelperNames |-> Unset], 1, cw)

(***************************************************************************)
(* Vote (part_002): the constructor builds its five helpers on             *)
(* this.contractWrapper, in this order.                                    *)
(***************************************************************************)
VoteConstructorOrder == <<"metadata", "encoder", "estimator", "events", "interceptor">>

VoteHelperNames == {VoteConstructorOrder[i] : i \in DOMAIN VoteConstructorOrder}

RECURSIVE RunVoteConstructor(_, _, _)
RunVoteConstructor(self, step, cw) ==
    IF step > Len(VoteConstructorOrder) THEN self
    ELSE RunVoteConstructor(
            [self EXCEPT ![VoteConstructorOrder[step]] =
                Handle(VoteConstructorOrder[step], <<step, "Vote." \o VoteConstructorOrder[step]>>, cw)],
            step + 1, cw)

VoteConstructor(cw) ==
    RunVoteConstructor([f \in VoteHelperNames |-> Unset], 1, cw)

NewVoteWrapper == [id |-> VoteWrapperId, network |-> 0]

\* no edition printed, supplyOf not called
NoEditions == [printed |-> 0, variant |-> "dense"]

NoPosition == [page |-> -1, ledgerIndex |-> -1, bitmask |-> 0]

SupplyIdle ==
    [pc |-> "idle", editionMarkerNumber |-> 0, editionIndex |-> 0, totalSupply |-> 0,
     lookup |-> -1, fetches |-> 0, examined |-> 0, onPage |-> 0, zeros |-> 0,
     prev |-> NoPosition, last |-> NoPosition, result |-> -1]

\* an empty drop, no read called
EmptyChain == [totalMinted |-> 0, nextTokenIdToMint |-> 0]

NotGiven == [given |-> FALSE, value |-> 0]

ReadIdle ==
    [op |-> "none", pc |-> "idle", start |-> 0, count |-> 0, claimed |-> 0,
     maxSupply |-> 0, firstTokenId |-> 0, maxId |-> 0, outcome |-> "none",
     value |-> 0, items |-> << >>, changed |-> FALSE, given |-> NotGiven]

NoProposal == [proposalId |-> 0, description |-> "", executions |-> << >>]

NoStaticCall ==
    [method |-> "none", targets |-> << >>, values |-> << >>, calldatas |-> << >>,
     descriptionHash |-> <<"keccak256", "">>, ok |-> FALSE]

VoteIdle ==
    [op |-> "none", pc |-> "idle", proposalId |-> 0, outcome |-> "none",
     error |-> "", proposal |-> NoProposal, value |-> FALSE,
     static |-> NoStaticCall, sent |-> NoStaticCall,
     ballot |-> [proposalId |-> 0, voteType |-> 0, reason |-> ""], log |-> << >>]

\* a token id the contract knows nothing of; no standard function called
NoToken ==
    [balance |-> 0, supply |-> [kind |-> "reverted", value |-> 0],
     uri |-> [kind |-> "reverted", text |-> ""], fetchOk |-> FALSE]

NoMetadata == [id |-> -1, uri |-> ""]

NoNFT == [owner |-> "", metadata |-> NoMetadata, type |-> "", supply |-> -1]

StdIdle ==
    [op |-> "none", pc |-> "idle", input |-> << >>, parsed |-> << >>, from |-> "",
     balanceOf |-> 0, totalToAirdrop |-> 0, outcome |-> "none", error |-> "",
     multicalls |-> << >>, supplyDone |-> FALSE, metadataDone |-> FALSE,
     supply |-> 0, metadata |-> NoMetadata, result |-> NoNFT, log |-> << >>]

NoProvider == [connection |-> "none", signer |-> "none"]

NoProgramCall == [program |-> 0, provider |-> NoProvider]

\* the UserWallet objects of the process, one per SDK instance
Wallets == {"wallet1", "wallet2"}

\* wallet.getSigner() of a wallet nobody connected: the guest identity
GuestWallets == [w \in Wallets |-> "guest"]

\* nothing called on the standard functions, no Program constructed
InitLater ==
    /\ token = NoToken
    /\ stdCall = StdIdle
    /\ provider = NoProvider
    /\ programs = << >>
    /\ walletSigner = GuestWallets
    /\ programCall = NoProgramCall
    /\ voteWrapper = NewVoteWrapper
    /\ voteContract = VoteConstructor(voteWrapper)

Init ==
    /\ InitLater
    /\ editions = NoEditions
    /\ governor = << >>
    /\ voteCall = VoteIdle
    /\ chain = EmptyChain
    /\ dropRead = ReadIdle
    /\ supplyOf = SupplyIdle
    /\ contractWrapper \in [id : {WrapperId}, abi : SUBSET Selectors, network : {0}]
    /\ pc = 0
    /\ erc1155 = UnboundFacade
    /\ nextObj = 1
    /\ call = NoCall
    /\ facade2 = UnboundFacade
    /\ dropWrapper = [id |-> DropWrapperId, network |-> 0]
    /\ signatureDrop = SignatureDropConstructor(dropWrapper)

\* one statement of the constructor; an exception thrown by the detection
\* leaves the constructor (pc = -1): `new Erc1155(...)` fails with it
Constructor ==
    /\ 0 <= pc
    /\ pc < Len(ConstructorOrder)
    /\ LET v == Detect(ConstructorOrder[pc + 1], erc1155, contractWrapper, nextObj)
       IN  IF v.tag = "throw"
           THEN /\ pc' = -1
                /\ call' = Raised("constructor", v.error, 0)
                /\ UNCHANGED <<erc1155, nextObj>>
           ELSE /\ erc1155' = Assign(erc1155, ConstructorOrder[pc + 1], contractWrapper, nextObj)
                /\ nextObj' = nextObj + 1
                /\ pc' = pc + 1
                /\ UNCHANGED call
    /\ UNCHANGED <<contractWrapper, facade2, dropVars, auxVars>>

(***************************************************************************)
(* onNetworkUpdated: updates the wrapper's signer/provider in place.       *)
(***************************************************************************)
updateSignerOrProvider(cw) == [cw EXCEPT !.network = cw.network + 1]

\* onNetworkUpdated giving the facade a new wrapper instead of updating the
\* shared one: the handles keep the old wrapper
OnNetworkUpdatedReplacesWrapper ==
    /\ pc = Len(ConstructorOrder)
    /\ contractWrapper.network < MaxNetworkUpdates
    /\ contractWrapper' =
          [contractWrapper EXCEPT !.id = <<contractWrapper.network + 1, "contractWrapper">>,
                                  !.network = contractWrapper.network + 1]
    /\ UNCHANGED <<pc, erc1155, nextObj, call, facade2, dropVars, auxVars>>

\* onNetworkUpdated rebuilding the capability handles for the new context
OnNetworkUpdatedRederives ==
    /\ pc = Len(ConstructorOrder)
    /\ contractWrapper.network < MaxNetworkUpdates
    /\ contractWrapper' = updateSignerOrProvider(contractWrapper)
    /\ erc1155' = RunConstructor(UnboundFacade, ConstructorOrder, contractWrapper', nextObj)
    /\ nextObj' = nextObj + Len(ConstructorOrder)
    /\ UNCHANGED <<pc, call, facade2, dropVars, auxVars>>

OnNetworkUpdated ==
    /\ pc = Len(ConstructorOrder)
    /\ contractWrapper.network < MaxNetworkUpdates
    /\ contractWrapper' = updateSignerOrProvider(contractWrapper)
    /\ UNCHANGED <<pc, erc1155, nextObj, call, facade2, dropVars, auxVars>>

(***************************************************************************)
(* Baseline operations: straight to the wrapper's readContract or          *)
(* sendTransaction.                                                        *)
(***************************************************************************)
WrapperObject == [id |-> contractWrapper.id, cw |-> contractWrapper.id,
                  builtGen |-> contractWrapper.network]

TotalSupply ==
    Invoke(Completed("totalSupply", "dispatched", WrapperObject, "readContract.totalSupply", 0))

BalanceOf ==
    Invoke(Completed("balanceOf", "dispatched", WrapperObject, "readContract.balanceOf", 0))

IsApproved ==
    Invoke(Completed("isApproved", "dispatched", WrapperObject, "readContract.isApprovedForAll", 0))

SetApprovalForAll ==
    Invoke(Completed("setApprovalForAll", "dispatched", WrapperObject, "sendTransaction", 0))

(***************************************************************************)
(* ERC1155 Enumerable extension.                                           *)
(***************************************************************************)
GetAll ==
    Invoke(Guarded("getAll", erc1155.query, FEATURE_EDITION_ENUMERABLE, "all", 0))

TotalCount ==
    Invoke(Guarded("totalCount", erc1155.query, FEATURE_EDITION_ENUMERABLE, "totalCount", 0))

TotalCirculatingSupply ==
    Invoke(Guarded("totalCirculatingSupply", erc1155.query, FEATURE_EDITION_ENUMERABLE,
                   "totalCirculatingSupply", 0))

GetOwned ==
    Invoke(Guarded("getOwned", erc1155.query, FEATURE_EDITION_ENUMERABLE, "owned", 0))

(***************************************************************************)
(* ERC1155 Mintable extension.                                             *)
(***************************************************************************)
\* mint: `this.mintTo(await this.contractWrapper.getSignerAddress(), ...)`
Mint == Invoke(Awaiting("mint", 1))

MintResume ==
    Resume("mint", Guarded("mint", erc1155.mintable, FEATURE_EDITION_MINTABLE, "to",
                           call.roundTrips))

MintTo ==
    Invoke(Guarded("mintTo", erc1155.mintable, FEATURE_EDITION_MINTABLE, "to", 0))

\* mintAdditionalSupply: assertEnabled(...) is evaluated before the argument
\* `await this.contractWrapper.getSignerAddress()`
MintAdditionalSupply ==
    Invoke(IF assertEnabled(erc1155.mintable, FEATURE_EDITION_MINTABLE).ok
           THEN Awaiting("mintAdditionalSupply", 1)
           ELSE Guarded("mintAdditionalSupply", erc1155.mintable,
                        FEATURE_EDITION_MINTABLE, "additionalSupplyTo", 0))

MintAdditionalSupplyResume ==
    Resume("mintAdditionalSupply",
           Guarded("mintAdditionalSupply", erc1155.mintable, FEATURE_EDITION_MINTABLE,
                   "additionalSupplyTo", call.roundTrips))

MintAdditionalSupplyTo ==
    Invoke(Guarded("mintAdditionalSupplyTo", erc1155.mintable, FEATURE_EDITION_MINTABLE,
                   "additionalSupplyTo", 0))

(***************************************************************************)
(* ERC1155 BatchMintable extension.                                        *)
(***************************************************************************)
MintBatch == Invoke(Awaiting("mintBatch", 1))

MintBatchResume ==
    Resume("mintBatch",
           Guarded("mintBatch", OptionalChain(erc1155.mintable, "batch"),
                   FEATURE_EDITION_BATCH_MINTABLE, "to", call.roundTrips))

\* mintBatchTo passing the feature constant of the single-item mint
MintBatchToNamesMintable ==
    Invoke(Guarded("mintBatchTo", OptionalChain(erc1155.mintable, "batch"),
                   FEATURE_EDITION_MINTABLE, "to", 0))

MintBatchTo ==
    Invoke(Guarded("mintBatchTo", OptionalChain(erc1155.mintable, "batch"),
                   FEATURE_EDITION_BATCH_MINTABLE, "to", 0))

(***************************************************************************)
(* ERC1155 Burnable extension.                                             *)
(***************************************************************************)
Burn ==
    Invoke(Guarded("burn", erc1155.burnable, FEATURE_EDITION_BURNABLE, "tokens", 0))

BurnFrom ==
    Invoke(Guarded("burnFrom", erc1155.burnable, FEATURE_EDITION_BURNABLE, "from", 0))

BurnBatch ==
    Invoke(Guarded("burnBatch", erc1155.burnable, FEATURE_EDITION_BURNABLE, "batch", 0))

BurnBatchFrom ==
    Invoke(Guarded("burnBatchFrom", erc1155.burnable, FEATURE_EDITION_BURNABLE,
                   "batchFrom", 0))

(***************************************************************************)
(* LazyMint extension.                                                     *)
(***************************************************************************)
LazyMint ==
    Invoke(Guarded("lazyMint", erc1155.lazyMintable, FEATURE_EDITION_LAZY_MINTABLE,
                   "lazyMint", 0))

(***************************************************************************)
(* ERC1155 Claimable extension.                                            *)
(***************************************************************************)
\* a dispatch that prefers the plain claim handle
ClaimDispatchPlainFirst(op, method, trips) ==
    LET claimWithConditions == OptionalChain(erc1155.lazyMintable, "claimWithConditions")
        claim == OptionalChain(erc1155.lazyMintable, "claim")
    IN  IF IsHandle(claim)
        THEN Completed(op, "dispatched", claim, method, trips)
        ELSE IF IsHandle(claimWithConditions)
        THEN Completed(op, "dispatched", claimWithConditions, method, trips)
        ELSE Raised(op, ExtensionNotImplementedError(FEATURE_EDITION_CLAIMABLE), trips)

\* the body shared by getClaimTransaction and claimTo
ClaimDispatch(op, method, trips) ==
    LET claimWithConditions == OptionalChain(erc1155.lazyMintable, "claimWithConditions")
        claim == OptionalChain(erc1155.lazyMintable, "claim")
    IN  IF IsHandle(claimWithConditions)
        THEN Completed(op, "dispatched", claimWithConditions, method, trips)
        ELSE IF IsHandle(claim)
        THEN Completed(op, "dispatched", claim, method, trips)
        ELSE Raised(op, ExtensionNotImplementedError(FEATURE_EDITION_CLAIMABLE), trips)

GetClaimTransaction ==
    Invoke(ClaimDispatch("getClaimTransaction", "getClaimTransaction", 0))

\* claim: `this.claimTo(await this.contractWrapper.getSignerAddress(), ...)`
Claim == Invoke(Awaiting("claim", 1))

ClaimResume == Resume("claim", ClaimDispatch("claim", "to", call.roundTrips))

ClaimTo == Invoke(ClaimDispatch("claimTo", "to", 0))

\* get claimConditions(): assertEnabled(...).conditions
ClaimConditions ==
    Invoke(LET r == assertEnabled(OptionalChain(erc1155.lazyMintable, "claimWithConditions"),
                                  FEATURE_EDITION_CLAIMABLE_WITH_CONDITIONS)
           IN  IF r.ok THEN Completed("claimConditions", "returned", r.value.conditions, "none", 0)
               ELSE Raised("claimConditions", r.error, 0))

(***************************************************************************)
(* SignatureMintable and DelayedReveal extensions.                         *)
(***************************************************************************)
Signature ==
    Invoke(Getter("signature", erc1155.signatureMintable, FEATURE_EDITION_SIGNATURE_MINTABLE))

\* revealer handing back the lazy-mint handle instead of its revealer
RevealerReturnsLazyMintable ==
    Invoke(Getter("revealer", erc1155.lazyMintable, FEATURE_EDITION_REVEALABLE))

Revealer ==
    Invoke(Getter("revealer", OptionalChain(erc1155.lazyMintable, "revealer"),
                  FEATURE_EDITION_REVEALABLE))

Next ==
    \/ Constructor
    \/ OnNetworkUpdated
    \/ TotalSupply \/ BalanceOf \/ IsApproved \/ SetApprovalForAll
    \/ GetAll \/ TotalCount \/ TotalCirculatingSupply \/ GetOwned
    \/ Mint \/ MintResume \/ MintTo
    \/ MintAdditionalSupply \/ MintAdditionalSupplyResume \/ MintAdditionalSupplyTo
    \/ MintBatch \/ MintBatchResume \/ MintBatchTo
    \/ Burn \/ BurnFrom \/ BurnBatch \/ BurnBatchFrom
    \/ LazyMint
    \/ GetClaimTransaction \/ Claim \/ ClaimResume \/ ClaimTo \/ ClaimConditions
    \/ Signature \/ Revealer

Spec == Init /\ [][Next]_vars

(***************************************************************************)
(* SignatureDrop: onNetworkUpdated and the reads of its public helpers.    *)
(***************************************************************************)
SignatureDropOnNetworkUpdated ==
    /\ dropWrapper.network < MaxNetworkUpdates
    /\ dropWrapper' = [dropWrapper EXCEPT !.network = dropWrapper.network + 1]
    /\ UNCHANGED <<contractWrapper, pc, erc1155, nextObj, call, facade2, signatureDrop, auxVars>>

\* contract.signature, contract.revealer, ...: plain public fields
SignatureDropRead ==
    /\ call.stage = "done"
    /\ \E f \in DropHelperNames :
          call' = [NoCall EXCEPT !.op = "SignatureDrop." \o f,
                                 !.outcome = "returned",
                                 !.handle = signatureDrop[f].id,
                                 !.builtGen = signatureDrop[f].builtGen,
                                 !.ctxGen = HandleContext(signatureDrop[f]),
                                 !.atGen = dropWrapper.network,
                                 !.sawAssigned = Assigned(erc1155)]
    /\ UNCHANGED <<contractWrapper, pc, erc1155, nextObj, facade2, dropVars, auxVars>>

outsideVoteFacade == <<supplyVars, dropReadVars, voteVars, stdVars, programVars>>

\* onNetworkUpdated putting a wrapper of its own making in place of the
\* shared one: the helpers keep the wrapper of the constructor
VoteOnNetworkUpdatedNewWrapper ==
    /\ voteWrapper.network < MaxNetworkUpdates
    /\ voteWrapper' = [id |-> <<voteWrapper.network + 1, "voteWrapper">>,
                       network |-> voteWrapper.network + 1]
    /\ UNCHANGED <<coreVars, outsideVoteFacade, voteContract>>

VoteOnNetworkUpdated ==
    /\ voteWrapper.network < MaxNetworkUpdates
    /\ voteWrapper' = [voteWrapper EXCEPT !.network = voteWrapper.network + 1]
    /\ UNCHANGED <<coreVars, outsideVoteFacade, voteContract>>

\* contract.metadata, contract.encoder, ...: plain public fields
VoteRead ==
    /\ call.stage = "done"
    /\ \E f \in VoteHelperNames :
          call' = [NoCall EXCEPT !.op = "Vote." \o f,
                                 !.outcome = "returned",
                                 !.handle = voteContract[f].id,
                                 !.builtGen = voteContract[f].builtGen,
                                 !.ctxGen = HandleContext(voteContract[f]),
                                 !.atGen = voteWrapper.network,
                                 !.sawAssigned = Assigned(erc1155)]
    /\ UNCHANGED <<contractWrapper, pc, erc1155, nextObj, facade2, dropVars, auxVars>>

NextNetwork ==
    \/ Next
    \/ SignatureDropOnNetworkUpdated
    \/ SignatureDropRead
    \/ VoteOnNetworkUpdated
    \/ VoteRead

\* the descriptors of the two-facade specification: every combination of the
\* five capabilities the facade has a field for, the capabilities nested in a
\* field's handle implemented whenever the field's own capability is
FieldFeatureNames ==
    {"ERC1155Enumerable", "ERC1155Mintable", "ERC1155Burnable",
     "ERC1155LazyMintable", "ERC1155SignatureMintable"}

NestedFeatureNames(featureName) ==
    CASE featureName = "ERC1155Mintable" -> {"ERC1155BatchMintable"}
      [] featureName = "ERC1155LazyMintable" ->
            {"ERC1155Claimable", "ERC1155ClaimableWithConditions", "ERC1155Revealable"}
      [] OTHER -> {}

NetworkDescriptors ==
    {UNION {RequiredSelectors(f) : f \in F \cup UNION {NestedFeatureNames(g) : g \in F}} :
        F \in SUBSET FieldFeatureNames}

InitNetwork == Init /\ contractWrapper.abi \in NetworkDescriptors

SpecNetwork == InitNetwork /\ [][NextNetwork]_vars

(***************************************************************************)
(* A second facade on the same wrapper: `new Erc1155(contractWrapper,      *)
(* storage)` run to completion, its five detections taken in any order.    *)
(***************************************************************************)
DetectionOrders ==
    {order \in [1 .. Cardinality(FieldNames) -> FieldNames] :
        \A i, j \in DOMAIN order : order[i] = order[j] => i = j}

Rebuild ==
    /\ pc = Len(ConstructorOrder)
    /\ call.stage = "done"
    /\ facade2 = UnboundFacade
    /\ \E order \in DetectionOrders :
          facade2' = RunConstructor(UnboundFacade, order, contractWrapper, nextObj)
    /\ nextObj' = nextObj + Cardinality(FieldNames)
    /\ UNCHANGED <<contractWrapper, pc, erc1155, call, dropVars, auxVars>>

NextRebuild == Constructor \/ OnNetworkUpdated \/ Rebuild

SpecRebuild == Init /\ [][NextRebuild]_vars

(***************************************************************************)
(* NFTCollection.supplyOf: the walk over the edition-marker pages.         *)
(*                                                                         *)
(* The chain holds one marker page per 248 edition numbers; edition e is   *)
(* bit (e % 248) of page (e \div 248), most significant bit first in each  *)
(* of the page's 31 ledger bytes.  A page's account exists once one of its *)
(* bits is set.                                                            *)
(***************************************************************************)
LastEdition == MaxMarkers * 248 - 1

EditionVariants == {"dense", "stray", "flag"}

\* is the ledger bit of edition number e set?
Printed(e) ==
    \/ 1 <= e /\ e <= editions.printed
    \/ editions.variant = "stray" /\ e = editions.printed + 2 /\ e <= LastEdition
    \/ editions.variant = "flag" /\ e = 0

LedgerBitValue(e, weight) == IF Printed(e) THEN weight ELSE 0

LedgerByte(marker, byte) ==
    LET e == marker * 248 + byte * 8
    IN  LedgerBitValue(e, 128) + LedgerBitValue(e + 1, 64) + LedgerBitValue(e + 2, 32)
      + LedgerBitValue(e + 3, 16) + LedgerBitValue(e + 4, 8) + LedgerBitValue(e + 5, 4)
      + LedgerBitValue(e + 6, 2) + LedgerBitValue(e + 7, 1)

EditionMarkerExists(marker) ==
    \E e \in (marker * 248) .. (marker * 248 + 247) : Printed(e)

\* the account data EditionMarker.fromAccountAddress deserialises
EditionMarker(marker) == [ledger |-> [byte \in 0 .. 30 |-> LedgerByte(marker, byte)]]

\* the marker page whose address findEditionMarkerPda derives for an edition
findEditionMarkerPda(edition) == edition \div 248

\* integer shift operators of the language (shift count taken modulo 32;
\* the operands of supplyOf stay below 2^8, far from the 32-bit wrap)
ShiftLeft(x, n) == x * 2 ^ (n % 32)

ShiftRight(x, n) == x \div 2 ^ (n % 32)

RECURSIVE BitAnd(_, _)
BitAnd(a, b) ==
    IF a = 0 \/ b = 0 THEN 0
    ELSE (a % 2) * (b % 2) + 2 * BitAnd(a \div 2, b \div 2)

indexCap(editionMarkerNumber) == IF editionMarkerNumber = 0 THEN 247 ELSE 248

\* every page indexed like the later pages
ledgerIndexFlat(editionMarkerNumber, editionIndex) == editionIndex \div 8

ledgerIndex(editionMarkerNumber, editionIndex) ==
    IF editionMarkerNumber > 0 THEN editionIndex \div 8
    ELSE IF editionIndex < 7 THEN 0
    ELSE (editionIndex - 7) \div 8 + 1

size(editionMarkerNumber, li) == IF editionMarkerNumber = 0 /\ li = 0 THEN 7 ELSE 8

shiftBase(sz) == ShiftLeft(1, sz - 1)

bitmask(editionMarkerNumber, editionIndex, li, sb) ==
    IF li = 0 THEN ShiftRight(sb, editionIndex)
    ELSE IF editionMarkerNumber > 0 THEN ShiftRight(sb, editionIndex % (li * 8))
    ELSE IF li = 1 THEN ShiftRight(sb, editionIndex - 7)
    ELSE ShiftRight(sb, (editionIndex - 7) % ((li - 1) * 8))

\* an edition counted as soon as its ledger byte holds any set bit
editionExistsAnyBit(editionMarker, li, bm) ==
    li \in DOMAIN editionMarker.ledger /\ editionMarker.ledger[li] # 0

editionExists(editionMarker, li, bm) ==
    li \in DOMAIN editionMarker.ledger /\ BitAnd(editionMarker.ledger[li], bm) # 0

\* supplyOf(nftAddress) is called
SupplyOfCall ==
    /\ supplyOf.pc = "idle"
    /\ supplyOf' = [supplyOf EXCEPT !.pc = "fetch", !.editionMarkerNumber = 0,
                                    !.totalSupply = 1]
    /\ UNCHANGED <<coreVars, editions, dropReadVars, voteVars, laterVars>>

\* top of the outer loop: the marker page is looked up and fetched; the fetch
\* of an account that does not exist throws, and supplyOf fails with it
FetchEditionMarker ==
    /\ supplyOf.pc = "fetch"
    /\ LET edition == supplyOf.editionMarkerNumber * 248
           marker == findEditionMarkerPda(edition)
       IN  supplyOf' =
              IF EditionMarkerExists(marker)
              THEN [supplyOf EXCEPT !.pc = "loop", !.editionIndex = 0, !.onPage = 0,
                                    !.lookup = edition, !.fetches = @ + 1]
              ELSE [supplyOf EXCEPT !.pc = "failed", !.lookup = edition]
    /\ UNCHANGED <<coreVars, editions, dropReadVars, voteVars, laterVars>>

\* a walk that reads on after an unset bit, to the end of the page
ExamineEditionFixedCount ==
    /\ supplyOf.pc = "loop"
    /\ supplyOf.editionIndex < indexCap(supplyOf.editionMarkerNumber)
    /\ LET n == supplyOf.editionMarkerNumber
           i == supplyOf.editionIndex
           li == ledgerIndex(n, i)
           bm == bitmask(n, i, li, shiftBase(size(n, li)))
           seen == [supplyOf EXCEPT !.examined = @ + 1, !.onPage = @ + 1,
                                    !.prev = supplyOf.last, !.editionIndex = @ + 1,
                                    !.last = [page |-> n, ledgerIndex |-> li, bitmask |-> bm]]
       IN  supplyOf' =
              IF editionExists(EditionMarker(n), li, bm)
              THEN [seen EXCEPT !.totalSupply = @ + 1]
              ELSE [seen EXCEPT !.zeros = @ + 1]
    /\ UNCHANGED <<coreVars, editions, dropReadVars, voteVars, laterVars>>

\* one iteration of the inner loop: the bit of editionIndex is read; a set
\* bit is counted, an unset bit leaves both loops and supplyOf returns
ExamineEdition ==
    /\ supplyOf.pc = "loop"
    /\ supplyOf.editionIndex < indexCap(supplyOf.editionMarkerNumber)
    /\ LET n == supplyOf.editionMarkerNumber
           i == supplyOf.editionIndex
           li == ledgerIndex(n, i)
           bm == bitmask(n, i, li, shiftBase(size(n, li)))
           seen == [supplyOf EXCEPT !.examined = @ + 1, !.onPage = @ + 1,
                                    !.prev = supplyOf.last,
                                    !.last = [page |-> n, ledgerIndex |-> li, bitmask |-> bm]]
       IN  supplyOf' =
              IF editionExists(EditionMarker(n), li, bm)
              THEN [seen EXCEPT !.totalSupply = @ + 1, !.editionIndex = @ + 1]
              ELSE [seen EXCEPT !.pc = "returned", !.zeros = @ + 1,
                                !.result = supplyOf.totalSupply]
    /\ UNCHANGED <<coreVars, editions, dropReadVars, voteVars, laterVars>>

\* the inner loop ran to indexCap: editionMarkerNumber++
AdvanceEditionMarker ==
    /\ supplyOf.pc = "loop"
    /\ supplyOf.editionIndex >= indexCap(supplyOf.editionMarkerNumber)
    /\ supplyOf.editionMarkerNumber < MaxMarkers
    /\ supplyOf' = [supplyOf EXCEPT !.pc = "fetch", !.editionMarkerNumber = @ + 1]
    /\ UNCHANGED <<coreVars, editions, dropReadVars, voteVars, laterVars>>

NextSupply ==
    \/ SupplyOfCall
    \/ FetchEditionMarker
    \/ ExamineEdition
    \/ AdvanceEditionMarker

InitSupply ==
    /\ InitLater
    /\ editions \in [printed : 0 .. LastEdition, variant : EditionVariants]
    /\ supplyOf = SupplyIdle
    /\ chain = EmptyChain
    /\ dropRead = ReadIdle
    /\ governor = << >>
    /\ voteCall = VoteIdle
    /\ contractWrapper = [id |-> WrapperId, abi |-> {}, network |-> 0]
    /\ pc = 0
    /\ erc1155 = UnboundFacade
    /\ nextObj = 1
    /\ call = NoCall
    /\ facade2 = UnboundFacade
    /\ dropWrapper = [id |-> DropWrapperId, network |-> 0]
    /\ signatureDrop = SignatureDropConstructor(dropWrapper)

SpecSupply == InitSupply /\ [][NextSupply]_vars

(***************************************************************************)
(* SignatureDrop reads: totalSupply, getAllClaimed, getAllUnclaimed.       *)
(* Every await of a contract read is a step; between the steps of a read   *)
(* other parties' transactions may move the contract's counters.           *)
(***************************************************************************)
DEFAULT_QUERY_ALL_COUNT == 100

QueryValues == {NotGiven} \cup [given : {TRUE}, value : 0 .. MaxQuery]

Min(a, b) == IF a <= b THEN a ELSE b

Max(a, b) == IF a >= b THEN a ELSE b

\* `param || fallback`: an absent or zero parameter takes the fallback
OrDefault(param, fallback) ==
    IF param.given /\ param.value # 0 THEN param.value ELSE fallback

\* Array.from(Array(n).keys()).map(i => first + i); Array(n) throws a
\* RangeError for negative n
ArrayKeysFrom(first, n) == [i \in 1 .. n |-> first + i - 1]

InFlight == dropRead.pc \notin {"idle", "done"}

\* another party's claim transaction is mined during the read
ChainClaim ==
    /\ InFlight
    /\ chain.totalMinted < chain.nextTokenIdToMint
    /\ chain' = [chain EXCEPT !.totalMinted = @ + 1]
    /\ dropRead' = [dropRead EXCEPT !.changed = TRUE]
    /\ UNCHANGED <<coreVars, supplyVars, voteVars, laterVars>>

\* another party's lazy mint is mined during the read
ChainLazyMint ==
    /\ InFlight
    /\ chain.nextTokenIdToMint < MaxTokens
    /\ chain' = [chain EXCEPT !.nextTokenIdToMint = @ + 1]
    /\ dropRead' = [dropRead EXCEPT !.changed = TRUE]
    /\ UNCHANGED <<coreVars, supplyVars, voteVars, laterVars>>

\* totalSupply(): claimed = await this.totalClaimedSupply()
DropTotalSupply ==
    /\ dropRead.pc = "idle"
    /\ dropRead' = [dropRead EXCEPT !.op = "totalSupply", !.pc = "unclaimed",
                                    !.claimed = chain.totalMinted]
    /\ UNCHANGED <<coreVars, supplyVars, voteVars, chain, laterVars>>

\* totalUnclaimedSupply(): maxSupply = await nextTokenIdToMint()
totalUnclaimedSupply ==
    /\ dropRead.pc = "unclaimed"
    /\ dropRead' = [dropRead EXCEPT !.pc = "sub", !.maxSupply = chain.nextTokenIdToMint]
    /\ UNCHANGED <<coreVars, supplyVars, voteVars, chain, laterVars>>

\* a total that adds the claimed count to the minted ceiling
DropTotalSupplyReturnDoubleCount ==
    /\ dropRead.pc = "sub"
    /\ dropRead' = [dropRead EXCEPT !.pc = "done", !.outcome = "returned",
                                    !.value = dropRead.claimed + dropRead.maxSupply]
    /\ UNCHANGED <<coreVars, supplyVars, voteVars, chain, laterVars>>

\* maxSupply.sub(await this.totalClaimedSupply()); return claimed.add(unclaimed)
DropTotalSupplyReturn ==
    /\ dropRead.pc = "sub"
    /\ LET unclaimed == dropRead.maxSupply - chain.totalMinted
       IN  dropRead' = [dropRead EXCEPT !.pc = "done", !.outcome = "returned",
                                        !.value = dropRead.claimed + unclaimed]
    /\ UNCHANGED <<coreVars, supplyVars, voteVars, chain, laterVars>>

\* getAllClaimed(queryParams) up to its await of totalClaimedSupply()
GetAllClaimed ==
    /\ dropRead.pc = "idle"
    /\ \E s \in QueryValues, c \in QueryValues :
          dropRead' = [dropRead EXCEPT !.op = "getAllClaimed", !.pc = "claimed",
                                       !.given = [start |-> s, count |-> c],
                                       !.start = OrDefault(s, 0),
                                       !.count = OrDefault(c, DEFAULT_QUERY_ALL_COUNT)]
    /\ UNCHANGED <<coreVars, supplyVars, voteVars, chain, laterVars>>

\* maxId = min(totalClaimedSupply, start + count); get(i) for i in 0 .. maxId - 1
GetAllClaimedReturn ==
    /\ dropRead.op = "getAllClaimed"
    /\ dropRead.pc = "claimed"
    /\ LET maxId == Min(chain.totalMinted, dropRead.start + dropRead.count)
       IN  dropRead' = [dropRead EXCEPT !.pc = "done", !.outcome = "returned",
                                        !.claimed = chain.totalMinted,
                                        !.maxId = maxId,
                                        !.items = ArrayKeysFrom(0, maxId)]
    /\ UNCHANGED <<coreVars, supplyVars, voteVars, chain, laterVars>>

\* getAllUnclaimed(queryParams) up to its await of totalClaimedSupply()
GetAllUnclaimed ==
    /\ dropRead.pc = "idle"
    /\ \E s \in QueryValues, c \in QueryValues :
          dropRead' = [dropRead EXCEPT !.op = "getAllUnclaimed", !.pc = "claimed",
                                       !.given = [start |-> s, count |-> c],
                                       !.start = OrDefault(s, 0),
                                       !.count = OrDefault(c, DEFAULT_QUERY_ALL_COUNT)]
    /\ UNCHANGED <<coreVars, supplyVars, voteVars, chain, laterVars>>

\* firstTokenId = max(totalClaimedSupply, start), then the await of
\* nextTokenIdToMint()
GetAllUnclaimedFirst ==
    /\ dropRead.op = "getAllUnclaimed"
    /\ dropRead.pc = "claimed"
    /\ dropRead' = [dropRead EXCEPT !.pc = "next", !.claimed = chain.totalMinted,
                                    !.firstTokenId = Max(chain.totalMinted, dropRead.start)]
    /\ UNCHANGED <<coreVars, supplyVars, voteVars, chain, laterVars>>

\* maxId = min(nextTokenIdToMint, firstTokenId + count); the metadata of
\* firstTokenId + i for i in 0 .. maxId - firstTokenId - 1
GetAllUnclaimedReturn ==
    /\ dropRead.pc = "next"
    /\ LET maxId == Min(chain.nextTokenIdToMint, dropRead.firstTokenId + dropRead.count)
           length == maxId - dropRead.firstTokenId
       IN  dropRead' =
              IF length < 0
              THEN [dropRead EXCEPT !.pc = "done", !.outcome = "RangeError",
                                    !.maxSupply = chain.nextTokenIdToMint, !.maxId = maxId]
              ELSE [dropRead EXCEPT !.pc = "done", !.outcome = "returned",
                                    !.maxSupply = chain.nextTokenIdToMint, !.maxId = maxId,
                                    !.items = ArrayKeysFrom(dropRead.firstTokenId, length)]
    /\ UNCHANGED <<coreVars, supplyVars, voteVars, chain, laterVars>>

NextDropReads ==
    \/ ChainClaim
    \/ ChainLazyMint
    \/ DropTotalSupply
    \/ totalUnclaimedSupply
    \/ DropTotalSupplyReturn
    \/ GetAllClaimed
    \/ GetAllClaimedReturn
    \/ GetAllUnclaimed
    \/ GetAllUnclaimedFirst
    \/ GetAllUnclaimedReturn

InitDropReads ==
    /\ InitLater
    /\ chain \in {c \in [totalMinted : 0 .. MaxTokens, nextTokenIdToMint : 0 .. MaxTokens] :
                     c.totalMinted <= c.nextTokenIdToMint}
    /\ dropRead = ReadIdle
    /\ editions = NoEditions
    /\ supplyOf = SupplyIdle
    /\ governor = << >>
    /\ voteCall = VoteIdle
    /\ contractWrapper = [id |-> WrapperId, abi |-> {}, network |-> 0]
    /\ pc = 0
    /\ erc1155 = UnboundFacade
    /\ nextObj = 1
    /\ call = NoCall
    /\ facade2 = UnboundFacade
    /\ dropWrapper = [id |-> DropWrapperId, network |-> 0]
    /\ signatureDrop = SignatureDropConstructor(dropWrapper)

SpecDropReads == InitDropReads /\ [][NextDropReads]_vars

(***************************************************************************)
(* Vote: get, getAll, canExecute, ensureExists.                            *)
(* The contract lists every proposal it holds in getAllProposals(), and    *)
(* its state(id) read reverts for an id it does not hold.                  *)
(***************************************************************************)
ProposalIds == 1 .. MaxProposalId

\* enum VoteType: Against, For, Abstain
VoteType == 0 .. 2

\* what a proposal carries: description, and targets, values, calldatas of
\* equal length
Payloads ==
    {[description |-> "upgrade", targets |-> << >>, values |-> << >>, calldatas |-> << >>],
     [description |-> "transfer", targets |-> <<"treasury">>, values |-> <<1>>,
      calldatas |-> <<"0xa9">>],
     [description |-> "transfer", targets |-> <<"treasury", "token">>, values |-> <<0, 2>>,
      calldatas |-> <<"0x", "0xb1">>]}

\* proposal lists: distinct ids in any order
ProposalLists ==
    {ids \in UNION {[1 .. n -> ProposalIds] : n \in 0 .. MaxProposalId} :
        \A i, j \in DOMAIN ids : ids[i] = ids[j] => i = j}

HoldsProposal(proposalId) ==
    \E i \in DOMAIN governor : governor[i].proposalId = proposalId

\* ethers.utils.id: the keccak256 hash of the text
id(text) == <<"keccak256", text>>

\* the Proposal getAll builds from one entry of getAllProposals()
ToProposal(data) ==
    [proposalId |-> data.proposalId,
     description |-> data.description,
     executions |-> [i \in DOMAIN data.values |->
                        [toAddress |-> data.targets[i],
                         nativeTokenValue |-> data.values[i],
                         transactionData |-> data.calldatas[i]]]]

\* the contract reads getAll issues, in order of issue
GetAllReads ==
    <<"getAllProposals">> \o [i \in 1 .. Len(governor) |-> "state"]
                          \o [i \in 1 .. Len(governor) |-> "proposalVotes"]

getAll == [i \in DOMAIN governor |-> ToProposal(governor[i])]

\* all.filter(p => p.proposalId.eq(BigNumber.from(proposalId)))
RECURSIVE Filter(_, _)
Filter(all, proposalId) ==
    IF all = << >> THEN << >>
    ELSE IF Head(all).proposalId = proposalId
         THEN <<Head(all)>> \o Filter(Tail(all), proposalId)
         ELSE Filter(Tail(all), proposalId)

\* get that takes the head of the unfiltered list
getFirstOfAll(c) ==
    LET all == getAll
        read == [c EXCEPT !.log = c.log \o GetAllReads]
    IN  IF Len(all) = 0
        THEN [read EXCEPT !.pc = "done", !.outcome = "raised", !.error = "proposal not found"]
        ELSE [read EXCEPT !.proposal = all[1]]

\* get(proposalId) run on the activation c: the proposal is stored, or the
\* activation ends with the error
get(c) ==
    LET all == getAll
        proposals == Filter(all, c.proposalId)
        read == [c EXCEPT !.log = c.log \o GetAllReads]
    IN  IF Len(proposals) = 0
        THEN [read EXCEPT !.pc = "done", !.outcome = "raised", !.error = "proposal not found"]
        ELSE [read EXCEPT !.proposal = proposals[1]]

\* vote.get(proposalId) is called
VoteGet ==
    /\ voteCall.pc = "idle"
    /\ \E proposalId \in ProposalIds :
          voteCall' = [voteCall EXCEPT !.op = "get", !.pc = "getAll",
                                       !.proposalId = proposalId]
    /\ UNCHANGED <<coreVars, supplyVars, dropReadVars, governor, laterVars>>

\* the await of getAll() resolves and get returns or throws
VoteGetReturn ==
    /\ voteCall.op = "get"
    /\ voteCall.pc = "getAll"
    /\ LET c == get(voteCall)
       IN  voteCall' = IF c.pc = "done" THEN c
                       ELSE [c EXCEPT !.pc = "done", !.outcome = "returned"]
    /\ UNCHANGED <<coreVars, supplyVars, dropReadVars, governor, laterVars>>

\* vote.canExecute(proposalId) is called
CanExecute ==
    /\ voteCall.pc = "idle"
    /\ \E proposalId \in ProposalIds :
          voteCall' = [voteCall EXCEPT !.op = "canExecute", !.pc = "ensureExists",
                                       !.proposalId = proposalId]
    /\ UNCHANGED <<coreVars, supplyVars, dropReadVars, governor, laterVars>>

\* vote.vote(proposalId, voteType, reason) is called
vote ==
    /\ voteCall.pc = "idle"
    /\ \E proposalId \in ProposalIds, voteType \in VoteType, reason \in {"", "agreed"} :
          voteCall' = [voteCall EXCEPT !.op = "vote", !.pc = "ensureExists",
                                       !.proposalId = proposalId,
                                       !.ballot = [proposalId |-> proposalId,
                                                   voteType |-> voteType,
                                                   reason |-> reason]]
    /\ UNCHANGED <<coreVars, supplyVars, dropReadVars, governor, laterVars>>

\* vote.execute(proposalId) is called
execute ==
    /\ voteCall.pc = "idle"
    /\ \E proposalId \in ProposalIds :
          voteCall' = [voteCall EXCEPT !.op = "execute", !.pc = "ensureExists",
                                       !.proposalId = proposalId]
    /\ UNCHANGED <<coreVars, supplyVars, dropReadVars, governor, laterVars>>

\* the statement that follows `await this.ensureExists(proposalId)`
AfterEnsureExists(op) == IF op = "vote" THEN "sendTransaction" ELSE "get"

\* an existence check whose failure is swallowed
ensureExistsSwallows ==
    /\ voteCall.pc = "ensureExists"
    /\ voteCall' = [voteCall EXCEPT !.log = Append(voteCall.log, "state"),
                                    !.pc = AfterEnsureExists(voteCall.op)]
    /\ UNCHANGED <<coreVars, supplyVars, dropReadVars, governor, laterVars>>

\* ensureExists: the state read, its failure rethrown as "Proposal <id> not found"
ensureExists ==
    /\ voteCall.pc = "ensureExists"
    /\ LET read == [voteCall EXCEPT !.log = Append(voteCall.log, "state")]
       IN  voteCall' =
              IF HoldsProposal(voteCall.proposalId)
              THEN [read EXCEPT !.pc = AfterEnsureExists(voteCall.op)]
              ELSE [read EXCEPT !.pc = "done", !.outcome = "raised",
                                !.error = "Proposal <id> not found"]
    /\ UNCHANGED <<coreVars, supplyVars, dropReadVars, governor, laterVars>>

\* canExecute: proposal = await this.get(proposalId)
CanExecuteGet ==
    /\ voteCall.op = "canExecute"
    /\ voteCall.pc = "get"
    /\ LET c == get(voteCall)
       IN  voteCall' = IF c.pc = "done" THEN c ELSE [c EXCEPT !.pc = "callStatic"]
    /\ UNCHANGED <<coreVars, supplyVars, dropReadVars, governor, laterVars>>

\* execute: proposal = await this.get(proposalId)
ExecuteGet ==
    /\ voteCall.op = "execute"
    /\ voteCall.pc = "get"
    /\ LET c == get(voteCall)
       IN  voteCall' = IF c.pc = "done" THEN c ELSE [c EXCEPT !.pc = "sendTransaction"]
    /\ UNCHANGED <<coreVars, supplyVars, dropReadVars, governor, laterVars>>

\* vote: sendTransaction("castVoteWithReason", [proposalId, voteType, reason]);
\* the chain decides whether the transaction succeeds
VoteSend ==
    /\ voteCall.op = "vote"
    /\ voteCall.pc = "sendTransaction"
    /\ \E ok \in BOOLEAN :
          voteCall' =
             [voteCall EXCEPT !.pc = "done",
                              !.outcome = IF ok THEN "returned" ELSE "raised",
                              !.error = IF ok THEN "" ELSE "transaction failed",
                              !.log = Append(voteCall.log, "sendTransaction.castVoteWithReason")]
    /\ UNCHANGED <<coreVars, supplyVars, dropReadVars, governor, laterVars>>

\* the arguments canExecute and execute pass to execute
ExecuteCall(proposal, method, ok) ==
    [method |-> method,
     targets |-> [i \in DOMAIN proposal.executions |-> proposal.executions[i].toAddress],
     values |-> [i \in DOMAIN proposal.executions |-> proposal.executions[i].nativeTokenValue],
     calldatas |-> [i \in DOMAIN proposal.executions |-> proposal.executions[i].transactionData],
     descriptionHash |-> id(proposal.description),
     ok |-> ok]

\* a canExecute that lets the failure of the static call escape
CanExecuteStaticRaises ==
    /\ voteCall.pc = "callStatic"
    /\ \E ok \in BOOLEAN :
          voteCall' =
             [voteCall EXCEPT !.pc = "done",
                              !.outcome = IF ok THEN "returned" ELSE "raised",
                              !.error = IF ok THEN "" ELSE "call revert exception",
                              !.value = ok,
                              !.static = ExecuteCall(voteCall.proposal, "callStatic.execute", ok),
                              !.log = Append(voteCall.log, "callStatic.execute")]
    /\ UNCHANGED <<coreVars, supplyVars, dropReadVars, governor, laterVars>>

\* canExecute: the static call of execute inside try/catch; the chain
\* decides whether it succeeds
CanExecuteStatic ==
    /\ voteCall.pc = "callStatic"
    /\ \E ok \in BOOLEAN :
          voteCall' =
             [voteCall EXCEPT !.pc = "done", !.outcome = "returned", !.value = ok,
                              !.static = ExecuteCall(voteCall.proposal, "callStatic.execute", ok),
                              !.log = Append(voteCall.log, "callStatic.execute")]
    /\ UNCHANGED <<coreVars, supplyVars, dropReadVars, governor, laterVars>>

\* execute: sendTransaction("execute", [tos, values, datas, descriptionHash])
ExecuteSend ==
    /\ voteCall.op = "execute"
    /\ voteCall.pc = "sendTransaction"
    /\ \E ok \in BOOLEAN :
          voteCall' =
             [voteCall EXCEPT !.pc = "done",
                              !.outcome = IF ok THEN "returned" ELSE "raised",
                              !.error = IF ok THEN "" ELSE "transaction failed",
                              !.sent = ExecuteCall(voteCall.proposal, "sendTransaction.execute", ok),
                              !.log = Append(voteCall.log, "sendTransaction.execute")]
    /\ UNCHANGED <<coreVars, supplyVars, dropReadVars, governor, laterVars>>

NextVote ==
    \/ VoteGet
    \/ VoteGetReturn
    \/ CanExecute
    \/ vote
    \/ execute
    \/ ensureExists
    \/ CanExecuteGet
    \/ ExecuteGet
    \/ VoteSend
    \/ CanExecuteStatic
    \/ ExecuteSend

InitVote ==
    /\ InitLater
    /\ \E ids \in ProposalLists, payload \in [ProposalIds -> Payloads] :
          governor = [i \in DOMAIN ids |->
                        [proposalId |-> ids[i],
                         description |-> payload[ids[i]].description,
                         targets |-> payload[ids[i]].targets,
                         values |-> payload[ids[i]].values,
                         calldatas |-> payload[ids[i]].calldatas]]
    /\ voteCall = VoteIdle
    /\ chain = EmptyChain
    /\ dropRead = ReadIdle
    /\ editions = NoEditions
    /\ supplyOf = SupplyIdle
    /\ contractWrapper = [id |-> WrapperId, abi |-> {}, network |-> 0]
    /\ pc = 0
    /\ erc1155 = UnboundFacade
    /\ nextObj = 1
    /\ call = NoCall
    /\ facade2 = UnboundFacade
    /\ dropWrapper = [id |-> DropWrapperId, network |-> 0]
    /\ signatureDrop = SignatureDropConstructor(dropWrapper)

SpecVote == InitVote /\ [][NextVote]_vars

(***************************************************************************)
(* Standard ERC1155 functions of the facade: airdrop and get.              *)
(***************************************************************************)
outsideStd == <<coreVars, supplyVars, dropReadVars, voteVars, programVars, voteFacadeVars>>

UndefinedQuantity == [kind |-> "undefined", value |-> 0]

Quantities ==
    {UndefinedQuantity} \cup [kind : {"number"}, value : 0 .. MaxQuantity]

\* AirdropInput: a list of {address, quantity?}
AirdropInputs ==
    UNION {[1 .. n -> [address : {"0xa", "0xb"}, quantity : Quantities]] :
              n \in 0 .. MaxRecipients}

\* AmountSchema: a number becomes its decimal string; a missing quantity
\* takes the default 1
AmountSchema(quantity) ==
    IF quantity.kind = "undefined" THEN [kind |-> "string", value |-> 1]
    ELSE [kind |-> "string", value |-> quantity.value]

AirdropInputSchema(addresses) ==
    [i \in DOMAIN addresses |->
        [address |-> addresses[i].address, quantity |-> AmountSchema(addresses[i].quantity)]]

\* truthiness of a quantity: undefined, the number 0 and the empty string
\* are falsy; a decimal string is never empty
Truthy(quantity) ==
    CASE quantity.kind = "undefined" -> FALSE
      [] quantity.kind = "number" -> quantity.value # 0
      [] quantity.kind = "string" -> TRUE

\* input.reduce((prev, curr) => prev + Number(curr?.quantity || 1), 0)
RECURSIVE totalToAirdrop(_)
totalToAirdrop(input) ==
    IF input = << >> THEN 0
    ELSE LET curr == input[Len(input)]
         IN  totalToAirdrop(SubSeq(input, 1, Len(input) - 1))
             + (IF Truthy(curr.quantity) THEN curr.quantity.value ELSE 1)

\* encodeFunctionData("safeTransferFrom", [from, to, tokenId, quantity, data])
encodeFunctionData(from, to, quantity) ==
    [fn |-> "safeTransferFrom", from |-> from, to |-> to, quantity |-> quantity.value]

\* airdrop(tokenId, addresses) up to its await of getSignerAddress()
Airdrop ==
    /\ stdCall.pc = "idle"
    /\ \E addresses \in AirdropInputs :
          stdCall' = [stdCall EXCEPT !.op = "airdrop", !.pc = "signer", !.input = addresses]
    /\ UNCHANGED <<outsideStd, token>>

\* getSignerAddress() resolves to the caller or rejects; then the await of
\* balanceOf(from, tokenId)
AirdropSigner ==
    /\ stdCall.op = "airdrop"
    /\ stdCall.pc = "signer"
    /\ \E signerOk \in BOOLEAN :
          stdCall' =
             IF signerOk
             THEN [stdCall EXCEPT !.pc = "balanceOf", !.from = "0xcaller",
                                  !.log = Append(stdCall.log, "getSignerAddress")]
             ELSE [stdCall EXCEPT !.pc = "done", !.outcome = "raised",
                                  !.error = "SignerError",
                                  !.log = Append(stdCall.log, "getSignerAddress")]
    /\ UNCHANGED <<outsideStd, token>>

\* an airdrop that sends whatever the balance
AirdropBalanceOfUnchecked ==
    /\ stdCall.pc = "balanceOf"
    /\ LET input == AirdropInputSchema(stdCall.input)
       IN  stdCall' = [stdCall EXCEPT !.balanceOf = token.balance, !.parsed = input,
                                      !.totalToAirdrop = totalToAirdrop(input),
                                      !.log = Append(stdCall.log, "balanceOf"),
                                      !.pc = "multiCall"]
    /\ UNCHANGED <<outsideStd, token>>

\* the balance is read, the input parsed and summed, the balance compared;
\* then the transfers are encoded and the await of multiCall begins
AirdropBalanceOf ==
    /\ stdCall.pc = "balanceOf"
    /\ LET balanceOf == token.balance
           input == AirdropInputSchema(stdCall.input)
           total == totalToAirdrop(input)
           read == [stdCall EXCEPT !.balanceOf = balanceOf, !.parsed = input,
                                   !.totalToAirdrop = total,
                                   !.log = Append(stdCall.log, "balanceOf")]
       IN  stdCall' =
              IF balanceOf < total
              THEN [read EXCEPT !.pc = "done", !.outcome = "raised",
                                !.error = "The caller owns fewer NFTs than it wants to airdrop"]
              ELSE [read EXCEPT !.pc = "multiCall"]
    /\ UNCHANGED <<outsideStd, token>>

\* contractWrapper.multiCall(encoded): one transaction, applied as a whole
\* or reverted as a whole by the chain
AirdropMultiCall ==
    /\ stdCall.pc = "multiCall"
    /\ \E ok \in BOOLEAN :
          LET encoded == [i \in DOMAIN stdCall.parsed |->
                             encodeFunctionData(stdCall.from, stdCall.parsed[i].address,
                                                stdCall.parsed[i].quantity)]
              sent == [calls |-> encoded, applied |-> IF ok THEN Len(encoded) ELSE 0]
          IN  /\ stdCall' = [stdCall EXCEPT !.pc = "done",
                                            !.outcome = IF ok THEN "returned" ELSE "raised",
                                            !.error = IF ok THEN "" ELSE "transaction failed",
                                            !.multicalls = Append(stdCall.multicalls, sent),
                                            !.log = Append(stdCall.log, "multicall")]
              /\ token' = IF ok
                          THEN [token EXCEPT !.balance = @ - stdCall.totalToAirdrop]
                          ELSE token
    /\ UNCHANGED outsideStd

AddressZero == "0x0000000000000000000000000000000000000000"

\* get(tokenId): both reads of Promise.all are issued
Erc1155Get ==
    /\ stdCall.pc = "idle"
    /\ stdCall' = [stdCall EXCEPT !.op = "get", !.pc = "reads",
                                  !.log = <<"totalSupply", "uri">>]
    /\ UNCHANGED <<outsideStd, token>>

\* a supply read whose failure rejects
GetSupplyPropagates ==
    /\ stdCall.pc = "reads"
    /\ ~stdCall.supplyDone
    /\ stdCall' =
          IF token.supply.kind = "reverted"
          THEN [stdCall EXCEPT !.pc = "done", !.outcome = "raised",
                               !.error = "call revert exception"]
          ELSE [stdCall EXCEPT !.supplyDone = TRUE, !.supply = token.supply]
    /\ UNCHANGED <<outsideStd, token>>

\* readContract.totalSupply(tokenId).catch(() => BigNumber.from(0))
GetSupply ==
    /\ stdCall.pc = "reads"
    /\ ~stdCall.supplyDone
    /\ stdCall' =
          [stdCall EXCEPT !.supplyDone = TRUE,
                          !.supply = IF token.supply.kind = "reverted"
                                     THEN [kind |-> "safe", value |-> 0]
                                     ELSE token.supply]
    /\ UNCHANGED <<outsideStd, token>>

\* getTokenMetadata(tokenId): the uri read, NotFoundError for an empty uri,
\* fetchTokenMetadata; its rejection rejects Promise.all
getTokenMetadata ==
    /\ stdCall.pc = "reads"
    /\ ~stdCall.metadataDone
    /\ stdCall' =
          IF token.uri.kind = "reverted"
          THEN [stdCall EXCEPT !.pc = "done", !.outcome = "raised",
                               !.error = "call revert exception"]
          ELSE IF token.uri.text = ""
          THEN [stdCall EXCEPT !.pc = "done", !.outcome = "raised", !.error = "NotFoundError"]
          ELSE IF ~token.fetchOk
          THEN [stdCall EXCEPT !.pc = "done", !.outcome = "raised", !.error = "fetch failed"]
          ELSE [stdCall EXCEPT !.metadataDone = TRUE,
                               !.metadata = [id |-> 0, uri |-> token.uri.text]]
    /\ UNCHANGED <<outsideStd, token>>

\* both reads resolved: the NFT is built; supply.toNumber() throws beyond
\* the safe integer range
GetReturn ==
    /\ stdCall.pc = "reads"
    /\ stdCall.supplyDone
    /\ stdCall.metadataDone
    /\ stdCall' =
          IF stdCall.supply.kind = "unsafe"
          THEN [stdCall EXCEPT !.pc = "done", !.outcome = "raised", !.error = "overflow"]
          ELSE [stdCall EXCEPT !.pc = "done", !.outcome = "returned",
                               !.result = [owner |-> AddressZero,
                                           metadata |-> stdCall.metadata,
                                           type |-> "ERC1155",
                                           supply |-> stdCall.supply.value]]
    /\ UNCHANGED <<outsideStd, token>>

NextStandard ==
    \/ Airdrop
    \/ AirdropSigner
    \/ AirdropBalanceOf
    \/ AirdropMultiCall
    \/ Erc1155Get
    \/ GetSupply
    \/ getTokenMetadata
    \/ GetReturn

\* what totalSupply(tokenId) answers: a revert, a value, a value beyond 2^53
SupplyAnswers ==
    {[kind |-> "reverted", value |-> 0], [kind |-> "safe", value |-> 0],
     [kind |-> "safe", value |-> 7], [kind |-> "unsafe", value |-> 0]}

UriAnswers ==
    {[kind |-> "reverted", text |-> ""], [kind |-> "ok", text |-> ""],
     [kind |-> "ok", text |-> "ipfs://metadata/0"]}

InitStandard ==
    /\ token \in [balance : 0 .. MaxBalance, supply : SupplyAnswers, uri : UriAnswers,
                  fetchOk : BOOLEAN]
    /\ stdCall = StdIdle
    /\ provider = NoProvider
    /\ programs = << >>
    /\ walletSigner = GuestWallets
    /\ programCall = NoProgramCall
    /\ voteWrapper = NewVoteWrapper
    /\ voteContract = VoteConstructor(voteWrapper)
    /\ editions = NoEditions
    /\ supplyOf = SupplyIdle
    /\ chain = EmptyChain
    /\ dropRead = ReadIdle
    /\ governor = << >>
    /\ voteCall = VoteIdle
    /\ contractWrapper = [id |-> WrapperId, abi |-> {}, network |-> 0]
    /\ pc = 0
    /\ erc1155 = UnboundFacade
    /\ nextObj = 1
    /\ call = NoCall
    /\ facade2 = UnboundFacade
    /\ dropWrapper = [id |-> DropWrapperId, network |-> 0]
    /\ signatureDrop = SignatureDropConstructor(dropWrapper)

SpecStandard == InitStandard /\ [][NextStandard]_vars

(***************************************************************************)
(* Program (solana/contracts/program.ts): the constructor sets the         *)
(* process-wide anchor provider and registers two listeners on the wallet  *)
(* that set it again; the AnchorProgram it creates takes the provider set  *)
(* at that moment.                                                         *)
(***************************************************************************)
Connections == {"devnet", "mainnet-beta"}

Signers == {"alice", "bob"}

outsideProgram == <<coreVars, supplyVars, dropReadVars, voteVars, stdVars, voteFacadeVars>>

\* new AnchorProvider(connection, wallet.getSigner(), {})
AnchorProvider(connection, signer) == [connection |-> connection, signer |-> signer]

\* new Program(programAddress, idl, connection, wallet)
ProgramConstructor ==
    /\ Len(programs) < MaxPrograms
    /\ \E connection \in Connections, wallet \in Wallets :
          LET set == AnchorProvider(connection, walletSigner[wallet])
          IN  /\ provider' = set
              /\ programs' = Append(programs, [connection |-> connection,
                                               network |-> connection,
                                               wallet |-> wallet,
                                               provider |-> set])
    /\ UNCHANGED <<outsideProgram, walletSigner, programCall>>

\* the listeners registered on the wallet run in registration order, each
\* calling setProvider with its own connection
RECURSIVE Emit(_, _, _, _)
Emit(current, listeners, wallet, signer) ==
    IF listeners = << >> THEN current
    ELSE Emit(IF Head(listeners).wallet = wallet
              THEN AnchorProvider(Head(listeners).connection, signer)
              ELSE current,
              Tail(listeners), wallet, signer)

\* wallet.connect(signer): the signer changes and "connected" is emitted
WalletConnected ==
    /\ programs # << >>
    /\ \E wallet \in Wallets, signer \in Signers :
          /\ walletSigner[wallet] # signer
          /\ walletSigner' = [walletSigner EXCEPT ![wallet] = signer]
          /\ provider' = Emit(provider, programs, wallet, signer)
    /\ UNCHANGED <<outsideProgram, programs, programCall>>

\* wallet.disconnect(): the identity is the guest and "disconnected" is emitted
WalletDisconnected ==
    /\ programs # << >>
    /\ \E wallet \in Wallets :
          /\ walletSigner[wallet] # "guest"
          /\ walletSigner' = [walletSigner EXCEPT ![wallet] = "guest"]
          /\ provider' = Emit(provider, programs, wallet, "guest")
    /\ UNCHANGED <<outsideProgram, programs, programCall>>

\* program.call(functionName, args): this.program.methods[...]...rpc() goes
\* through the provider of the AnchorProgram
ProgramCall ==
    /\ \E p \in DOMAIN programs :
          programCall' = [program |-> p, provider |-> programs[p].provider]
    /\ UNCHANGED <<outsideProgram, provider, programs, walletSigner>>

NextProgram ==
    \/ ProgramConstructor
    \/ WalletConnected
    \/ WalletDisconnected
    \/ ProgramCall

InitProgram ==
    /\ provider = NoProvider
    /\ programs = << >>
    /\ walletSigner = GuestWallets
    /\ programCall = NoProgramCall
    /\ voteWrapper = NewVoteWrapper
    /\ voteContract = VoteConstructor(voteWrapper)
    /\ token = NoToken
    /\ stdCall = StdIdle
    /\ editions = NoEditions
    /\ supplyOf = SupplyIdle
    /\ chain = EmptyChain
    /\ dropRead = ReadIdle
    /\ governor = << >>
    /\ voteCall = VoteIdle
    /\ contractWrapper = [id |-> WrapperId, abi |-> {}, network |-> 0]
    /\ pc = 0
    /\ erc1155 = UnboundFacade
    /\ nextObj = 1
    /\ call = NoCall
    /\ facade2 = UnboundFacade
    /\ dropWrapper = [id |-> DropWrapperId, network |-> 0]
    /\ signatureDrop = SignatureDropConstructor(dropWrapper)

SpecProgram == InitProgram /\ [][NextProgram]_vars





(***************************************************************************)
(* Vocabulary of the properties.                                           *)
(***************************************************************************)
Capabilities ==
    {"Enumerable", "Mintable", "BatchMintable", "Burnable", "LazyMintable",
     "Claimable", "ClaimableWithConditions", "SignatureMintable", "Revealable"}

Bound == pc = Len(ConstructorOrder)

Done == call.op # "none" /\ call.stage = "done"

\* the contract implements the full selector set of the capability
Implements(capability) == supports(contractWrapper.abi, "ERC1155" \o capability) = "FULL"

\* the handle of a capability as the facade `self` holds it
StoredHandle(self, capability) ==
    CASE capability = "Enumerable" -> self.query
      [] capability = "Mintable" -> self.mintable
      [] capability = "BatchMintable" -> OptionalChain(self.mintable, "batch")
      [] capability = "Burnable" -> self.burnable
      [] capability = "LazyMintable" -> self.lazyMintable
      [] capability = "Claimable" -> OptionalChain(self.lazyMintable, "claim")
      [] capability = "ClaimableWithConditions" ->
            OptionalChain(self.lazyMintable, "claimWithConditions")
      [] capability = "SignatureMintable" -> self.signatureMintable
      [] capability = "Revealable" -> OptionalChain(self.lazyMintable, "revealer")

HasHandle(capability) == IsHandle(StoredHandle(erc1155, capability))

\* the operations and getters of a capability that reach the accessor first
AccessorOps(capability) ==
    CASE capability = "Enumerable" ->
            {"getAll", "totalCount", "totalCirculatingSupply", "getOwned"}
      [] capability = "Mintable" ->
            {"mintTo", "mintAdditionalSupply", "mintAdditionalSupplyTo"}
      [] capability = "BatchMintable" -> {"mintBatchTo"}
      [] capability = "Burnable" -> {"burn", "burnFrom", "burnBatch", "burnBatchFrom"}
      [] capability = "LazyMintable" -> {"lazyMint"}
      [] capability = "Claimable" -> {"claimTo", "getClaimTransaction"}
      [] capability = "ClaimableWithConditions" -> {"claimConditions"}
      [] capability = "SignatureMintable" -> {"signature"}
      [] capability = "Revealable" -> {"revealer"}

\* the operations that resolve the signer address before anything else
SignerFirstOps(capability) ==
    CASE capability = "Mintable" -> {"mint"}
      [] capability = "BatchMintable" -> {"mintBatch"}
      [] capability = "Claimable" -> {"claim"}
      [] OTHER -> {}

AllOps(capability) == AccessorOps(capability) \cup SignerFirstOps(capability)

BaselineOps == {"totalSupply", "balanceOf", "isApproved", "setApprovalForAll"}

RaisedFor(capability) ==
    /\ call.outcome = "ExtensionNotImplemented"
    /\ call.feature.capability = capability
    /\ call.feature.family = "ERC1155"

Served == call.outcome \in {"dispatched", "returned"}

\* the object an operation of the capability is served by
ServingObject(capability) ==
    IF capability = "ClaimableWithConditions"
    THEN StoredHandle(erc1155, capability).conditions
    ELSE StoredHandle(erc1155, capability)

(***************************************************************************)
(* C1                                                                      *)
(***************************************************************************)
\* C1 (as stated): whenever the contract does not implement a capability,
\* every completed operation or getter of that capability has raised
\* ExtensionNotImplemented naming exactly that capability.
C1_AbsentCapabilityRaises ==
    \A c \in Capabilities :
        (Done /\ call.op \in AccessorOps(c) /\ ~Implements(c)) => RaisedFor(c)

\* C1 (amended): the same, except that claimTo and getClaimTransaction raise
\* (naming Claimable) only when the facade has no claimWithConditions handle
\* either, i.e. the contract lacks ClaimableWithConditions or LazyMintable.
C1_AbsentCapabilityRaisesUnlessConditions ==
    \A c \in Capabilities :
        ( /\ Done
          /\ call.op \in AccessorOps(c)
          /\ ~Implements(c)
          /\ c = "Claimable" =>
                ~(Implements("LazyMintable") /\ Implements("ClaimableWithConditions")) )
        => RaisedFor(c)

\* claimTo on a lazy-mint contract with neither claim interface has raised
C1_Witness ==
    /\ Done
    /\ call.op = "claimTo"
    /\ Implements("LazyMintable")
    /\ ~Implements("Claimable")
    /\ ~Implements("ClaimableWithConditions")
    /\ RaisedFor("Claimable")

(***************************************************************************)
(* C2                                                                      *)
(***************************************************************************)
\* C2: when the handle of a capability was constructed, an operation or getter
\* of that capability never raises ExtensionNotImplemented, and what the
\* guarded accessor hands back is the object stored at construction, with the
\* same identity (the claim operations, which do not use the accessor, are
\* served by the stored claimWithConditions or claim handle).
C2_PresentHandleReturnedUnchanged ==
    \A c \in Capabilities :
        (Done /\ call.op \in AllOps(c) /\ HasHandle(c)) =>
            /\ call.outcome # "ExtensionNotImplemented"
            /\ (Served /\ c # "Claimable") => call.handle = ServingObject(c).id
            /\ (Served /\ c = "Claimable") =>
                  call.handle =
                     IF HasHandle("ClaimableWithConditions")
                     THEN StoredHandle(erc1155, "ClaimableWithConditions").id
                     ELSE StoredHandle(erc1155, "Claimable").id

\* the revealer getter has handed back the revealer of the lazy-mint handle
C2_Witness ==
    /\ Done
    /\ call.op = "revealer"
    /\ HasHandle("Revealable")
    /\ call.outcome = "returned"
    /\ call.handle = ServingObject("Revealable").id
    /\ call.handle # erc1155.lazyMintable.id

(***************************************************************************)
(* C3                                                                      *)
(***************************************************************************)
\* C3 (as stated): on a contract with the BatchMintable selectors and without
\* the Mintable selectors no batch handle is reachable, and mintBatch and
\* mintBatchTo fail with ExtensionNotImplemented for BatchMintable.
C3_BatchNeedsMintable ==
    ( /\ Bound
      /\ RequiredSelectors("ERC1155BatchMintable") \subseteq contractWrapper.abi
      /\ ~(RequiredSelectors("ERC1155Mintable") \subseteq contractWrapper.abi) )
    => /\ ~HasHandle("BatchMintable")
       /\ (Done /\ call.op \in {"mintBatch", "mintBatchTo"}) => RaisedFor("BatchMintable")

(***************************************************************************)
(* C4                                                                      *)
(***************************************************************************)
\* C4 (as stated): a capability is available through its accessor exactly
\* when the contract implements that capability's own selectors, BatchMintable
\* requiring Mintable in addition; nothing else matters.
C4_CapabilityIndependence ==
    \A c \in Capabilities :
        (Done /\ call.op \in AllOps(c) /\ call.outcome # "SignerError") =>
            (Served <=> (Implements(c) /\ (c = "BatchMintable" => Implements("Mintable"))))

(***************************************************************************)
(* C5                                                                      *)
(***************************************************************************)
\* the capability an operation needs is absent from the facade
Absent(capability) ==
    IF capability = "Claimable"
    THEN ~HasHandle("Claimable") /\ ~HasHandle("ClaimableWithConditions")
    ELSE ~HasHandle(capability)

\* C5 (as stated): an operation of an absent capability raises
\* ExtensionNotImplemented at the call, with no network round trip issued
\* before it and never suspended on one.
C5_FailsBeforeAnyRoundTrip ==
    \A c \in Capabilities :
        (Bound /\ call.op \in AllOps(c) /\ Absent(c)) =>
            /\ call.stage = "done"
            /\ call.outcome = "ExtensionNotImplemented"
            /\ call.roundTrips = 0

(***************************************************************************)
(* C6                                                                      *)
(***************************************************************************)
\* C6 (as stated): on a contract with the core selectors plus Burnable only,
\* baseline operations reach the wrapper, the burn operations reach the
\* burnable handle, and every mint operation raises ExtensionNotImplemented
\* for Mintable of family ERC1155.
C6_BurnableOnlyScenario ==
    (Done /\ contractWrapper.abi = RequiredSelectors("ERC1155Burnable")) =>
        /\ call.op \in BaselineOps =>
              call.outcome = "dispatched" /\ call.handle = contractWrapper.id
        /\ call.op \in AllOps("Burnable") =>
              /\ HasHandle("Burnable")
              /\ call.outcome = "dispatched"
              /\ call.handle = StoredHandle(erc1155, "Burnable").id
        /\ call.op \in AllOps("Mintable") => RaisedFor("Mintable")

(***************************************************************************)
(* C7                                                                      *)
(***************************************************************************)
DropOps == {"SignatureDrop." \o f : f \in DropHelperNames}

\* a completed call that was served by a handle of either facade
HandleServed ==
    /\ Done
    /\ Served
    /\ call.op \in DropOps \cup UNION {AllOps(c) : c \in Capabilities}

\* C7 (as stated): a handle that an operation, getter or helper field of
\* Erc1155 or SignatureDrop hands out was never constructed before the most
\* recent change of the facade's network context.
C7_HandlesRederivedOnNetworkChange ==
    HandleServed => call.builtGen = call.atGen

\* C7 (amended): the handles are not re-derived: after any number of context
\* changes a call is still served by the handle constructed with the facade,
\* and since every handle refers to its facade's one wrapper, which is updated
\* in place, each handle operates on the most recent context and no two
\* handles of a facade on different ones.
C7_HandlesKeptOnSharedWrapper ==
    /\ HandleServed => (call.builtGen = 0 /\ call.ctxGen = call.atGen)
    /\ \A c \in Capabilities :
          HasHandle(c) =>
              /\ StoredHandle(erc1155, c).cw = contractWrapper.id
              /\ HandleContext(StoredHandle(erc1155, c)) = contractWrapper.network
    /\ \A f \in DropHelperNames :
          /\ signatureDrop[f].cw = dropWrapper.id
          /\ HandleContext(signatureDrop[f]) = dropWrapper.network

\* after a context change of both facades the signature getter of Erc1155 has
\* handed back the handle built before it, which operates on the new context
C7_Witness ==
    /\ Done
    /\ call.op = "signature"
    /\ call.outcome = "returned"
    /\ call.atGen = 1
    /\ call.builtGen = 0
    /\ call.ctxGen = 1
    /\ dropWrapper.network = 1
    /\ HandleContext(signatureDrop.signature) = 1

Presence(self) == [c \in Capabilities |-> IsHandle(StoredHandle(self, c))]

\* C9: a second facade built from the same contract interface, at any later
\* time and with its five detections run in any order, has the same
\* presence/absence for every capability as the first.
C9_DetectionDeterministic ==
    facade2 # UnboundFacade => Presence(facade2) = Presence(erc1155)

\* the second facade was built after a context change and in another order
\* than the first (its signature handle was created before its query handle)
C9_Witness ==
    /\ facade2 # UnboundFacade
    /\ contractWrapper.network = 1
    /\ IsHandle(facade2.query)
    /\ IsHandle(facade2.signatureMintable)
    /\ IsHandle(facade2.burnable)
    /\ ~IsHandle(facade2.mintable)
    /\ facade2.signatureMintable.id[1] < facade2.query.id[1]

(***************************************************************************)
(* C10                                                                     *)
(***************************************************************************)
FieldFeature(field) ==
    CASE field = "query" -> "ERC1155Enumerable"
      [] field = "mintable" -> "ERC1155Mintable"
      [] field = "burnable" -> "ERC1155Burnable"
      [] field = "lazyMintable" -> "ERC1155LazyMintable"
      [] field = "signatureMintable" -> "ERC1155SignatureMintable"

\* C10: once the facade is constructed, each of the five capability fields
\* holds a handle exactly when the probe reports FULL support for its
\* capability; PARTIAL support never yields a handle.
C10_HandleIffFullSupport ==
    Bound =>
        \A f \in FieldNames :
            IsHandle(erc1155[f]) <=> supports(contractWrapper.abi, FieldFeature(f)) = "FULL"

\* a constructed facade on a contract that supports SignatureMintable only
\* partially and Burnable fully
C10_Witness ==
    /\ Bound
    /\ supports(contractWrapper.abi, "ERC1155SignatureMintable") = "PARTIAL"
    /\ erc1155.signatureMintable = Undefined
    /\ supports(contractWrapper.abi, "ERC1155Burnable") = "FULL"
    /\ IsHandle(erc1155.burnable)

(***************************************************************************)
(* C11                                                                     *)
(***************************************************************************)
\* C11: construction never fails because a capability is absent: the
\* constructor is never left by an exception, once it has finished each of
\* the five fields is a handle or explicitly undefined, and an
\* ExtensionNotImplemented failure has only ever come from a call, made after
\* construction, of an operation whose capability is absent.
C11_AbsenceIsData ==
    /\ pc >= 0
    /\ call.op # "constructor"
    /\ Bound => \A f \in FieldNames : IsHandle(erc1155[f]) \/ erc1155[f] = Undefined
    /\ call.outcome = "ExtensionNotImplemented" =>
          /\ Bound
          /\ \E c \in Capabilities :
                /\ call.op \in AllOps(c)
                /\ Absent(c)
                /\ call.feature.capability = c

\* a facade was constructed on a contract with none of the five capabilities,
\* and only the later lazyMint call has raised
C11_Witness ==
    /\ Bound
    /\ \A f \in FieldNames : erc1155[f] = Undefined
    /\ Done
    /\ call.op = "lazyMint"
    /\ RaisedFor("LazyMintable")

(***************************************************************************)
(* C12                                                                     *)
(***************************************************************************)
\* C12: once the facade is constructed, no step (a read, a write, a call
\* that raises, onNetworkUpdated) changes its capability fields: the same
\* handles, with the same identities, stay for the facade's lifetime.
C12_HandlesFixedAfterConstruction ==
    [][Bound => erc1155' = erc1155]_vars

\* after a context change and a failed call the facade still holds the
\* handle of its construction
C12_Witness ==
    /\ Bound
    /\ contractWrapper.network = 1
    /\ Done
    /\ call.op = "mintTo"
    /\ RaisedFor("Mintable")
    /\ IsHandle(erc1155.burnable)
    /\ erc1155.burnable.builtGen = 0


(***************************************************************************)
(* Vocabulary of the edition ledger.                                       *)
(***************************************************************************)
\* bit g of the ledger in page order: 248 bits a page, 8 bits a byte, most
\* significant bit first
LedgerBit(g) ==
    BitAnd(EditionMarker(g \div 248).ledger[(g % 248) \div 8], 2 ^ (7 - (g % 8))) # 0

\* the first unset bit in page order from the first usable bit of page 0
\* (bit 1); LastEdition + 1 when every bit of the ledger is set
FirstUnsetBit ==
    CHOOSE g \in 1 .. LastEdition + 1 :
        /\ g > LastEdition \/ ~LedgerBit(g)
        /\ \A h \in 1 .. g - 1 : LedgerBit(h)

\* number of set bits from the first usable bit up to the first unset bit
ConsecutiveSetBits == FirstUnsetBit - 1

\* the position read after position p, most significant bit first
Successor(p) ==
    IF p.bitmask > 1 THEN [p EXCEPT !.bitmask = p.bitmask \div 2]
    ELSE IF p.ledgerIndex < 30 THEN [p EXCEPT !.ledgerIndex = p.ledgerIndex + 1, !.bitmask = 128]
    ELSE [page |-> p.page + 1, ledgerIndex |-> 0, bitmask |-> 128]

SingleBits == {128, 64, 32, 16, 8, 4, 2, 1}

\* every usable bit of page k is set
PageFull(k) ==
    \A g \in (k * 248) .. (k * 248 + 247) : g = 0 \/ LedgerBit(g)

(***************************************************************************)
(* C13                                                                     *)
(***************************************************************************)
\* C13: when supplyOf returns, its result is 1 plus the number of consecutive
\* set bits of the ledger counted in page order from the first usable bit of
\* page 0 up to the first unset bit; a bit set after the first unset bit
\* (the "stray" ledgers) leaves the result at 1 + the contiguous count, and a
\* page 0 whose first byte has its 7 usable bits set and whose second byte
\* is 0b11100000 gives 11.
C13_SupplyCountsLeadingSetBits ==
    supplyOf.pc = "returned" =>
        /\ supplyOf.result = 1 + ConsecutiveSetBits
        /\ supplyOf.result = 1 + editions.printed
        /\ (EditionMarker(0).ledger[0] % 128 = 127 /\ EditionMarker(0).ledger[1] = 224)
              => supplyOf.result = 11

\* the worked example, with a further bit set behind the gap
C13_Witness ==
    /\ supplyOf.pc = "returned"
    /\ EditionMarker(0).ledger[0] = 127
    /\ EditionMarker(0).ledger[1] = 232
    /\ editions.variant = "stray"
    /\ supplyOf.result = 11

(***************************************************************************)
(* C14                                                                     *)
(***************************************************************************)
\* C14: every position read has its byte index in 0..30 and a single-bit
\* mask, on page 0 byte 0 one of the low 7 bits; the first position read is
\* bit 6 of byte 0 of page 0 and each later one is the successor of the one
\* before it, most significant bit first, so no bit is read twice or
\* skipped; a page is left after exactly 247 (page 0) or 248 (later pages)
\* positions, the last being bit 0 of byte 30; page k is looked up at
\* edition number k * 248.
C14_LedgerIndexing ==
    /\ supplyOf.examined > 0 =>
          /\ supplyOf.last.ledgerIndex \in 0 .. 30
          /\ supplyOf.last.bitmask \in SingleBits
          /\ (supplyOf.pc \in {"loop", "returned"} /\ supplyOf.onPage > 0)
                => supplyOf.last.page = supplyOf.editionMarkerNumber
          /\ (supplyOf.last.page = 0 /\ supplyOf.last.ledgerIndex = 0)
                => supplyOf.last.bitmask < 128
    /\ supplyOf.examined = 1 =>
          supplyOf.last = [page |-> 0, ledgerIndex |-> 0, bitmask |-> 64]
    /\ supplyOf.examined > 1 => supplyOf.last = Successor(supplyOf.prev)
    /\ supplyOf.onPage <= indexCap(supplyOf.editionMarkerNumber)
    /\ (supplyOf.pc = "loop" /\
        supplyOf.editionIndex >= indexCap(supplyOf.editionMarkerNumber)) =>
          /\ supplyOf.onPage = IF supplyOf.editionMarkerNumber = 0 THEN 247 ELSE 248
          /\ supplyOf.last = [page |-> supplyOf.editionMarkerNumber,
                              ledgerIndex |-> 30, bitmask |-> 1]
    /\ supplyOf.pc \in {"loop", "returned", "failed"} =>
          supplyOf.lookup = supplyOf.editionMarkerNumber * 248

\* page 0 was read to its end and the walk is on the second byte of page 1
C14_Witness ==
    /\ supplyOf.pc = "loop"
    /\ supplyOf.editionMarkerNumber = 1
    /\ supplyOf.lookup = 248
    /\ supplyOf.examined = 247 + 9
    /\ supplyOf.last = [page |-> 1, ledgerIndex |-> 1, bitmask |-> 128]

(***************************************************************************)
(* C15                                                                     *)
(***************************************************************************)
\* C15: the walk ends on the first unset bit it reads: at most one unset
\* bit is ever read, reading it returns at once, with exactly the
\* consecutive set bits and that one unset bit examined and no page fetched
\* beyond the one holding it; and the walk moves on to page k + 1 only when
\* every usable bit of page k is set.
C15_StopsAtFirstUnsetBit ==
    /\ supplyOf.zeros <= 1
    /\ supplyOf.zeros = 1 <=> supplyOf.pc = "returned"
    /\ supplyOf.pc = "returned" =>
          /\ supplyOf.examined = ConsecutiveSetBits + 1
          /\ supplyOf.fetches = (ConsecutiveSetBits + 1) \div 248 + 1
    /\ (supplyOf.pc = "fetch" /\ supplyOf.editionMarkerNumber > 0) =>
          /\ PageFull(supplyOf.editionMarkerNumber - 1)
          /\ supplyOf.examined = supplyOf.editionMarkerNumber * 248 - 1
          /\ supplyOf.totalSupply = supplyOf.examined + 1

\* the first unset bit lies on page 1 and later bits of the page are set:
\* two pages fetched, the walk returned at the gap
C15_Witness ==
    /\ supplyOf.pc = "returned"
    /\ supplyOf.editionMarkerNumber = 1
    /\ supplyOf.fetches = 2
    /\ editions.variant = "stray"
    /\ supplyOf.zeros = 1
    /\ supplyOf.examined = 247 + 4


(***************************************************************************)
(* Vocabulary of the drop reads.                                           *)
(***************************************************************************)
ReadDone(op) == dropRead.pc = "done" /\ dropRead.op = op

\* the token ids first, first + 1, ... below last, ascending
IdRange(first, last) == ArrayKeysFrom(first, Max(0, last - first))

(***************************************************************************)
(* C16                                                                     *)
(***************************************************************************)
\* C16: when the contract's counters did not move during the call,
\* totalSupply returns totalClaimedSupply() + totalUnclaimedSupply(), which
\* is nextTokenIdToMint, the unclaimed part being nextTokenIdToMint minus
\* totalMinted.
C16_TotalSupplyIsClaimedPlusUnclaimed ==
    (ReadDone("totalSupply") /\ ~dropRead.changed) =>
        /\ dropRead.outcome = "returned"
        /\ dropRead.claimed = chain.totalMinted
        /\ dropRead.value - dropRead.claimed = chain.nextTokenIdToMint - chain.totalMinted
        /\ dropRead.value = chain.nextTokenIdToMint

\* a drop with one of three tokens claimed: the total is 3
C16_Witness ==
    /\ ReadDone("totalSupply")
    /\ ~dropRead.changed
    /\ chain.totalMinted = 1
    /\ chain.nextTokenIdToMint = 3
    /\ dropRead.value = 3

(***************************************************************************)
(* C17                                                                     *)
(***************************************************************************)
\* C17: getAllClaimed returns exactly the claimed token ids in
\* [start, min(totalClaimedSupply, start + count)), ascending: never more
\* than count of them and none below start.
C17_GetAllClaimedHonoursStart ==
    ReadDone("getAllClaimed") =>
        /\ dropRead.outcome = "returned"
        /\ dropRead.items =
              IdRange(dropRead.start, Min(chain.totalMinted, dropRead.start + dropRead.count))
        /\ Len(dropRead.items) <= dropRead.count
        /\ \A i \in DOMAIN dropRead.items : dropRead.items[i] >= dropRead.start

(***************************************************************************)
(* C18                                                                     *)
(***************************************************************************)
\* C18: with the counters unmoved during the call, getAllUnclaimed returns
\* exactly the ids in [max(totalClaimedSupply, start),
\* min(nextTokenIdToMint, max(totalClaimedSupply, start) + count)),
\* ascending: no claimed id, no id at or beyond nextTokenIdToMint, at most
\* count of them, and the empty list when that range is empty.
C18_GetAllUnclaimedRange ==
    (ReadDone("getAllUnclaimed") /\ ~dropRead.changed) =>
        LET first == Max(chain.totalMinted, dropRead.start)
            last == Min(chain.nextTokenIdToMint, first + dropRead.count)
        IN  /\ dropRead.outcome = "returned"
            /\ dropRead.items = IdRange(first, last)
            /\ Len(dropRead.items) <= dropRead.count
            /\ \A i \in DOMAIN dropRead.items :
                  /\ dropRead.items[i] >= chain.totalMinted
                  /\ dropRead.items[i] < chain.nextTokenIdToMint


(***************************************************************************)
(* Vocabulary of the Vote operations.                                      *)
(***************************************************************************)
VoteDone(op) == voteCall.pc = "done" /\ voteCall.op = op

\* the contract's entry for a proposal id it holds
Held(proposalId) ==
    governor[CHOOSE i \in DOMAIN governor : governor[i].proposalId = proposalId]

(***************************************************************************)
(* C19                                                                     *)
(***************************************************************************)
\* C19: get(proposalId) returns the proposal of the contract's list whose id
\* is the requested one whenever the list holds one, and fails with
\* "proposal not found" exactly when the list holds none; the proposal it
\* returns never has another id.
C19_GetReturnsRequestedProposal ==
    VoteDone("get") =>
        /\ HoldsProposal(voteCall.proposalId) <=> voteCall.outcome = "returned"
        /\ ~HoldsProposal(voteCall.proposalId) <=>
              (voteCall.outcome = "raised" /\ voteCall.error = "proposal not found")
        /\ voteCall.outcome = "returned" =>
              /\ voteCall.proposal.proposalId = voteCall.proposalId
              /\ voteCall.proposal = ToProposal(Held(voteCall.proposalId))

\* the requested proposal stands second in a list of three
C19_Witness ==
    /\ VoteDone("get")
    /\ Len(governor) = 3
    /\ governor[2].proposalId = voteCall.proposalId
    /\ voteCall.outcome = "returned"
    /\ voteCall.proposal.proposalId = voteCall.proposalId
    /\ Len(voteCall.proposal.executions) = 2

(***************************************************************************)
(* C20                                                                     *)
(***************************************************************************)
\* C20: for a proposal the contract holds, canExecute returns (never
\* raises) the success of one static call of execute made with the
\* proposal's targets, values, calldatas and the hash of its description:
\* true when the call succeeds, false when it fails; every contract
\* interaction of the call is a read or that static call, no transaction is
\* submitted.
C20_CanExecuteIsStaticCallOutcome ==
    (VoteDone("canExecute") /\ HoldsProposal(voteCall.proposalId)) =>
        LET data == Held(voteCall.proposalId)
        IN  /\ voteCall.outcome = "returned"
            /\ voteCall.value = voteCall.static.ok
            /\ voteCall.static.method = "callStatic.execute"
            /\ voteCall.static.targets = data.targets
            /\ voteCall.static.values = data.values
            /\ voteCall.static.calldatas = data.calldatas
            /\ voteCall.static.descriptionHash = id(data.description)
            /\ \A i \in DOMAIN voteCall.log :
                  voteCall.log[i] \in {"state", "getAllProposals", "proposalVotes",
                                       "callStatic.execute"}
            /\ Cardinality({i \in DOMAIN voteCall.log :
                               voteCall.log[i] = "callStatic.execute"}) = 1

\* the static call of a two-action proposal failed and canExecute
\* returned false
C20_Witness ==
    /\ VoteDone("canExecute")
    /\ HoldsProposal(voteCall.proposalId)
    /\ voteCall.outcome = "returned"
    /\ voteCall.value = FALSE
    /\ voteCall.static.ok = FALSE
    /\ Len(voteCall.static.targets) = 2


(***************************************************************************)
(* C21                                                                     *)
(***************************************************************************)
\* C21: a completed claimTo or getClaimTransaction was served by the
\* claimWithConditions handle of the lazy-mint handle when there is one
\* (whether or not a plain claim handle exists too), else by the plain claim
\* handle, and when neither exists (LazyMintable absent included) it raised
\* ExtensionNotImplemented for Claimable with no handle reached and no
\* method called; the branch depends on the facade alone, so both methods
\* take the same one.
C21_ClaimDispatchPrecedence ==
    (Done /\ call.op \in {"claimTo", "getClaimTransaction"}) =>
        LET method == IF call.op = "claimTo" THEN "to" ELSE "getClaimTransaction"
        IN  IF HasHandle("ClaimableWithConditions")
            THEN /\ call.outcome = "dispatched"
                 /\ call.handle = StoredHandle(erc1155, "ClaimableWithConditions").id
                 /\ call.method = method
            ELSE IF HasHandle("Claimable")
            THEN /\ call.outcome = "dispatched"
                 /\ call.handle = StoredHandle(erc1155, "Claimable").id
                 /\ call.method = method
            ELSE /\ RaisedFor("Claimable")
                 /\ call.handle = NoObject
                 /\ call.method = "none"
                 /\ call.roundTrips = 0

\* both handles exist and claimTo went to claimWithConditions
C21_Witness ==
    /\ Done
    /\ call.op = "claimTo"
    /\ HasHandle("ClaimableWithConditions")
    /\ HasHandle("Claimable")
    /\ call.outcome = "dispatched"
    /\ call.handle = StoredHandle(erc1155, "ClaimableWithConditions").id
    /\ call.method = "to"


(***************************************************************************)
(* C22                                                                     *)
(***************************************************************************)
\* C22: in vote, execute and canExecute the first contract interaction is
\* the state query of the proposal; when the contract does not hold the
\* proposal the operation ends with "Proposal <id> not found" having issued
\* nothing but that query; a transaction or a static execute call appears
\* only behind a state query that succeeded.
C22_ExistenceCheckedFirst ==
    voteCall.op \in {"vote", "execute", "canExecute"} =>
        /\ voteCall.log # << >> => voteCall.log[1] = "state"
        /\ voteCall.pc \notin {"idle", "ensureExists"} => voteCall.log # << >>
        /\ (voteCall.pc = "done" /\ ~HoldsProposal(voteCall.proposalId)) =>
              /\ voteCall.outcome = "raised"
              /\ voteCall.error = "Proposal <id> not found"
              /\ voteCall.log = <<"state">>
        /\ \A i \in DOMAIN voteCall.log :
              voteCall.log[i] \in {"sendTransaction.castVoteWithReason",
                                   "sendTransaction.execute", "callStatic.execute"}
                 => /\ i > 1
                    /\ HoldsProposal(voteCall.proposalId)

\* a vote on a proposal the contract does not hold ended at the state query
C22_Witness ==
    /\ voteCall.op = "vote"
    /\ voteCall.pc = "done"
    /\ ~HoldsProposal(voteCall.proposalId)
    /\ voteCall.error = "Proposal <id> not found"
    /\ voteCall.log = <<"state">>


(***************************************************************************)
(* Vocabulary of the standard functions.                                   *)
(***************************************************************************)
StdDone(op) == stdCall.pc = "done" /\ stdCall.op = op

\* what a recipient is to receive: the quantity given, 1 when none is given
Requested(recipient) ==
    IF recipient.quantity.kind = "undefined" THEN 1 ELSE recipient.quantity.value

\* sum of what the first n recipients are to receive
RECURSIVE RequestedUpTo(_, _)
RequestedUpTo(addresses, n) ==
    IF n = 0 THEN 0 ELSE RequestedUpTo(addresses, n - 1) + Requested(addresses[n])

MetadataReadable == token.uri.kind = "ok" /\ token.uri.text # "" /\ token.fetchOk

(***************************************************************************)
(* C23                                                                     *)
(***************************************************************************)
\* C23: an airdrop that got the caller's address compares the caller's
\* balance with the sum of the recipients' quantities (1 for a recipient
\* without quantity): with a smaller balance it fails and no transaction is
\* sent; otherwise exactly one multicall is submitted, holding one
\* safeTransferFrom per recipient, from the caller, in input order, and it
\* is applied as a whole or not at all.
C23_AirdropIsOneCheckedMulticall ==
    (StdDone("airdrop") /\ stdCall.error # "SignerError") =>
        LET total == RequestedUpTo(stdCall.input, Len(stdCall.input))
        IN  IF stdCall.balanceOf < total
            THEN /\ stdCall.outcome = "raised"
                 /\ stdCall.multicalls = << >>
                 /\ token.balance = stdCall.balanceOf
            ELSE /\ Len(stdCall.multicalls) = 1
                 /\ stdCall.multicalls[1].calls =
                       [i \in DOMAIN stdCall.input |->
                           [fn |-> "safeTransferFrom", from |-> "0xcaller",
                            to |-> stdCall.input[i].address,
                            quantity |-> Requested(stdCall.input[i])]]
                 /\ stdCall.multicalls[1].applied \in {0, Len(stdCall.input)}
                 /\ token.balance =
                       IF stdCall.multicalls[1].applied = 0 /\ stdCall.outcome = "raised"
                       THEN stdCall.balanceOf
                       ELSE stdCall.balanceOf - total

\* the caller owns 1 and airdrops to two recipients, one without quantity:
\* nothing was sent
C23_Witness ==
    /\ StdDone("airdrop")
    /\ stdCall.balanceOf = 1
    /\ Len(stdCall.input) = 2
    /\ stdCall.input[1].quantity.kind = "undefined"
    /\ Requested(stdCall.input[2]) = 1
    /\ stdCall.outcome = "raised"
    /\ stdCall.multicalls = << >>

(***************************************************************************)
(* C24                                                                     *)
(***************************************************************************)
\* C24: get succeeds with supply 0 when the totalSupply read fails and the
\* metadata is readable; it fails when the metadata read fails, with
\* NotFoundError for an empty token URI; a result it returns has type
\* "ERC1155" and the zero address as owner.
C24_GetSupplyOptionalMetadataMandatory ==
    StdDone("get") =>
        /\ (token.supply.kind = "reverted" /\ MetadataReadable) =>
              /\ stdCall.outcome = "returned"
              /\ stdCall.result.supply = 0
        /\ ~MetadataReadable => stdCall.outcome = "raised"
        /\ (token.uri.kind = "ok" /\ token.uri.text = "") => stdCall.error = "NotFoundError"
        /\ stdCall.outcome = "returned" =>
              /\ stdCall.result.type = "ERC1155"
              /\ stdCall.result.owner = AddressZero
              /\ stdCall.result.metadata.uri = token.uri.text

\* the contract has no totalSupply and get returned the NFT with supply 0
C24_Witness ==
    /\ StdDone("get")
    /\ token.supply.kind = "reverted"
    /\ MetadataReadable
    /\ stdCall.outcome = "returned"
    /\ stdCall.result.supply = 0
    /\ stdCall.result.owner = AddressZero


(***************************************************************************)
(* C25                                                                     *)
(***************************************************************************)
\* C25 (as stated): for every Program P constructed, the process-wide
\* provider last set is built from P's connection and the current signer
\* of P's wallet, and a call made through P goes through a provider of P's
\* network and the wallet's current identity.
C25_ProviderFollowsProgram ==
    \A p \in DOMAIN programs :
        /\ provider.connection = programs[p].connection
        /\ provider.signer = walletSigner[programs[p].wallet]
        /\ programCall.program = p =>
              /\ programCall.provider.connection = programs[p].network
              /\ programCall.provider.signer = walletSigner[programs[p].wallet]


(***************************************************************************)
(* C26                                                                     *)
(***************************************************************************)
\* C26 (as stated): when the printed editions are contiguous from 1 and
\* only the marker pages holding a printed edition exist, supplyOf does not
\* fail and returns 1 + the number of editions: 1 for no edition at all,
\* 248 for exactly 247 editions.
C26_SupplyOfContiguousNeverFails ==
    editions.variant = "dense" =>
        /\ supplyOf.pc # "failed"
        /\ supplyOf.pc = "returned" => supplyOf.result = 1 + editions.printed


(***************************************************************************)
(* C27                                                                     *)
(***************************************************************************)
VoteOps == {"Vote." \o f : f \in VoteHelperNames}

\* C27: in SignatureDrop, Vote and Erc1155 every helper or handle built by
\* the constructor refers to the one contract wrapper of its facade;
\* onNetworkUpdated changes only that wrapper's signer/provider (the wrapper
\* stays the same object and no helper field is reassigned), so after any
\* sequence of onNetworkUpdated calls all helpers of one facade operate on
\* the same context, the one supplied last.
C27_SharedCallContext ==
    /\ contractWrapper.id = WrapperId
    /\ dropWrapper.id = DropWrapperId
    /\ voteWrapper.id = VoteWrapperId
    /\ signatureDrop = SignatureDropConstructor([dropWrapper EXCEPT !.network = 0])
    /\ voteContract = VoteConstructor([voteWrapper EXCEPT !.network = 0])
    /\ \A f \in FieldNames :
          IsHandle(erc1155[f]) =>
              /\ erc1155[f].cw = contractWrapper.id
              /\ HandleContext(erc1155[f]) = contractWrapper.network
    /\ \A f \in DropHelperNames :
          /\ signatureDrop[f].cw = dropWrapper.id
          /\ HandleContext(signatureDrop[f]) = dropWrapper.network
    /\ \A f \in VoteHelperNames :
          /\ voteContract[f].cw = voteWrapper.id
          /\ HandleContext(voteContract[f]) = voteWrapper.network
    /\ (Done /\ call.op \in VoteOps \cup DropOps) => call.ctxGen = call.atGen

\* after onNetworkUpdated on each of the three facades, the encoder of Vote
\* built by the constructor is read and operates on the context supplied last
C27_Witness ==
    /\ Done
    /\ call.op = "Vote.encoder"
    /\ call.builtGen = 0
    /\ call.ctxGen = MaxNetworkUpdates
    /\ voteWrapper.network = MaxNetworkUpdates
    /\ dropWrapper.network = MaxNetworkUpdates
    /\ contractWrapper.network = MaxNetworkUpdates
    /\ \E f \in FieldNames : IsHandle(erc1155[f])

====
